---------------------------- MODULE Spec2Model ----------------------------
(***************************************************************************)
(* A model of the document scanner (src/smart-scanner.js):                 *)
(* the detection pipeline of SmartDocumentScanner (grayscale, blur, Sobel, *)
(* flood-fill contours, convex hull, quadrilateral fit, validation,        *)
(* selection), its capture and rectification path, and the event-driven    *)
(* state of the two scanner classes.                                       *)
(*                                                                         *)
(* Numbers.  Points are integer pixel coordinates.  Areas are kept doubled *)
(* (the shoelace sum before the division by 2), angles are compared by     *)
(* the exact sign of 4*dot^2 - |v1|^2*|v2|^2, and polar angles by the      *)
(* exact sign of a cross product, so no floating point is needed: for      *)
(* integer points of the sizes used here the JavaScript doubles decide     *)
(* every comparison the same way.                                          *)
(***************************************************************************)
EXTENDS Integers, Sequences, FiniteSets, TLC

(***************************************************************************)
(* Program constants of the detection pipeline.                            *)
(***************************************************************************)
EdgeThreshold == 50
SeedBorder == 10
SeedStride == 5
MinContourLength == 50
MaxContourLength == 1000

NoCorners == <<>>

Pt(x, y) == <<x, y>>
PX(p) == p[1]
PY(p) == p[2]

Abs(n) == IF n < 0 THEN -n ELSE n

(***************************************************************************)
(* Loops.  Repeat(Step, x, n) runs a loop body n times and FoldSeq runs it *)
(* over s[lo..hi] in order; both split the range in halves, and finish the *)
(* first half before the second starts, so that a long loop does not nest  *)
(* deeply.  Stored(f) is a buffer whose elements have been written: the    *)
(* comparison makes the values be computed once.                           *)
(***************************************************************************)
RECURSIVE Repeat(_, _, _)
Repeat(Step(_), x, n) ==
    IF n <= 0 THEN x
    ELSE IF n = 1 THEN Step(x)
    ELSE LET half == Repeat(Step, x, n \div 2)
         IN  IF half = half THEN Repeat(Step, half, n - (n \div 2)) ELSE x

RECURSIVE FoldSeq(_, _, _, _, _)
FoldSeq(Step(_, _), acc, s, lo, hi) ==
    IF lo > hi THEN acc
    ELSE IF lo = hi THEN Step(acc, s[lo])
    ELSE LET mid == (lo + hi) \div 2
             half == FoldSeq(Step, acc, s, lo, mid)
         IN  IF half = half THEN FoldSeq(Step, half, s, mid + 1, hi) ELSE acc

Stored(f) == IF f = f THEN f ELSE f

(***************************************************************************)
(* Uint8ClampedArray store of the rational num/den (den > 0): round to     *)
(* nearest, ties to even, then clamp to 0..255.                            *)
(***************************************************************************)
ClampedStore(num, den) ==
    IF num <= 0 THEN 0
    ELSE LET q == num \div den
             r == num % den
             rounded == IF 2 * r > den THEN q + 1
                        ELSE IF 2 * r < den THEN q
                        ELSE IF q % 2 = 0 THEN q ELSE q + 1
         IN  IF rounded > 255 THEN 255 ELSE rounded

(***************************************************************************)
(* convertToGrayscale: one byte per pixel, 0.299 R + 0.587 G + 0.114 B.    *)
(* A pixel is <<r, g, b>>; the buffer is a function on 0..w*h-1.           *)
(***************************************************************************)
Luma(px) == ClampedStore(299 * px[1] + 587 * px[2] + 114 * px[3], 1000)

ConvertToGrayscale(data, n) == Stored([i \in 0..(n - 1) |-> Luma(data[i])])

(***************************************************************************)
(* gaussianBlur: the 3x3 kernel [1,2,1,2,4,2,1,2,1]/16 at every interior   *)
(* pixel of a fresh, zero-filled result buffer.                            *)
(***************************************************************************)
KernelAt(ky, kx) == (2 - Abs(ky)) * (2 - Abs(kx))

InteriorPixel(i, width, height) ==
    LET x == i % width
        y == i \div width
    IN  x >= 1 /\ x < width - 1 /\ y >= 1 /\ y < height - 1

BlurSum(data, width, i) ==
      data[i - width - 1] * KernelAt(-1, -1) + data[i - width] * KernelAt(-1, 0)
    + data[i - width + 1] * KernelAt(-1, 1)
    + data[i - 1] * KernelAt(0, -1) + data[i] * KernelAt(0, 0)
    + data[i + 1] * KernelAt(0, 1)
    + data[i + width - 1] * KernelAt(1, -1) + data[i + width] * KernelAt(1, 0)
    + data[i + width + 1] * KernelAt(1, 1)

BorderValue(data, i) == 0

GaussianBlur(data, width, height) ==
    Stored([i \in 0..(width * height - 1) |->
               IF InteriorPixel(i, width, height)
               THEN ClampedStore(BlurSum(data, width, i), 16)
               ELSE BorderValue(data, i)])

(***************************************************************************)
(* sobelEdgeDetection: 255 where sqrt(gx^2 + gy^2) > 50 at an interior     *)
(* pixel, 0 elsewhere (the border of the fresh buffer stays 0).            *)
(***************************************************************************)
SobelGx(data, width, i) ==
      data[i - width + 1] - data[i - width - 1]
    + 2 * (data[i + 1] - data[i - 1])
    + data[i + width + 1] - data[i + width - 1]

SobelGy(data, width, i) ==
      data[i + width - 1] - data[i - width - 1]
    + 2 * (data[i + width] - data[i - width])
    + data[i + width + 1] - data[i - width + 1]

SobelEdgeDetection(data, width, height) ==
    Stored([i \in 0..(width * height - 1) |->
               IF InteriorPixel(i, width, height)
               THEN LET gx == SobelGx(data, width, i)
                        gy == SobelGy(data, width, i)
                    IN  IF gx * gx + gy * gy > EdgeThreshold * EdgeThreshold
                        THEN 255 ELSE 0
               ELSE 0])

(***************************************************************************)
(* traceContour: the stack-based flood fill over the 8-neighbourhood.  The *)
(* loop state is [stack, contour, visited]; TraceStep is one iteration of  *)
(* `while (stack.length > 0 && contour.length < 1000)`, and the identity   *)
(* once the loop has ended.  Every iteration pops one entry and pushes 8   *)
(* only when it appends to the contour, so the loop ends within            *)
(* 1 + 8 * 1000 iterations.                                                *)
(***************************************************************************)
Neighbours(p) ==
    << Pt(PX(p) - 1, PY(p) - 1), Pt(PX(p), PY(p) - 1), Pt(PX(p) + 1, PY(p) - 1),
       Pt(PX(p) - 1, PY(p)),                          Pt(PX(p) + 1, PY(p)),
       Pt(PX(p) - 1, PY(p) + 1), Pt(PX(p), PY(p) + 1), Pt(PX(p) + 1, PY(p) + 1) >>

\* a faulty test that does not look at visited[index]
SkippedPopUnmarked(edges, width, height, visited, p) ==
    \/ PX(p) < 0 \/ PX(p) >= width \/ PY(p) < 0 \/ PY(p) >= height
    \/ edges[PY(p) * width + PX(p)] = 0

SkippedPop(edges, width, height, visited, p) ==
    \/ PX(p) < 0 \/ PX(p) >= width \/ PY(p) < 0 \/ PY(p) >= height
    \/ (PY(p) * width + PX(p)) \in visited
    \/ edges[PY(p) * width + PX(p)] = 0

\* a faulty loop test without the cap on the contour
TraceRunningUncapped(t) == Len(t.stack) > 0

TraceRunning(t) == Len(t.stack) > 0 /\ Len(t.contour) < MaxContourLength

TraceStep(edges, width, height, t) ==
    IF ~TraceRunning(t) THEN t
    ELSE LET p == t.stack[Len(t.stack)]
             rest == SubSeq(t.stack, 1, Len(t.stack) - 1)
         IN  IF SkippedPop(edges, width, height, t.visited, p)
             THEN [t EXCEPT !.stack = rest]
             ELSE [stack |-> rest \o Neighbours(p),
                   contour |-> Append(t.contour, p),
                   visited |-> t.visited \cup {PY(p) * width + PX(p)}]

TraceContour(edges, width, height, startX, startY, visited) ==
    LET Step(t) == TraceStep(edges, width, height, t)
    IN  Repeat(Step,
               [stack |-> <<Pt(startX, startY)>>, contour |-> <<>>,
                visited |-> visited],
               1 + 8 * MaxContourLength)

(***************************************************************************)
(* convexHull (Graham scan), crossProduct, approximateToQuadrilateral,     *)
(* findRectangleCorners.                                                   *)
(***************************************************************************)
CrossProduct(o, a, b) ==
    (PX(a) - PX(o)) * (PY(b) - PY(o)) - (PY(a) - PY(o)) * (PX(b) - PX(o))

\* points.reduce((acc, p) => Better(p, acc) ? p : acc), no initial value
Reduce(Better(_, _), points) ==
    LET Step(acc, p) == IF Better(p, acc) THEN p ELSE acc
    IN  FoldSeq(Step, points[1], points, 2, Len(points))

\* points.reduce((min, p) => p.y > min.y || (p.y === min.y && p.x < min.x) ? p : min)
LowerLeft(p, min) == PY(p) > PY(min) \/ (PY(p) = PY(min) /\ PX(p) < PX(min))

HullStart(points) == Reduce(LowerLeft, points)

\* angleA - angleB < 0 for atan2 about the start point: every other point
\* has dy <= 0 (and dx > 0 when dy = 0), so the angles lie in (-pi, 0] and
\* are ordered by the sign of the cross product; collinear points tie.
AngleBefore(start, a, b) == CrossProduct(start, a, b) > 0
AngleTie(start, a, b) == CrossProduct(start, a, b) = 0

\* Array.prototype.sort is stable: each element goes to 1 + the number of
\* elements before it in the order.
SortedByAngle(start, rest) ==
    LET n == Len(rest)
        rank(i) == Cardinality({j \in 1..n : AngleBefore(start, rest[j], rest[i])})
                 + Cardinality({j \in 1..(i - 1) : AngleTie(start, rest[j], rest[i])})
                 + 1
        ranks == Stored([i \in 1..n |-> rank(i)])
    IN  Stored([r \in 1..n |-> rest[CHOOSE i \in 1..n : ranks[i] = r]])

PopsOnTurn(c) == c <= 0

\* while (hull.length > 1 && crossProduct(...) <= 0) hull.pop(): the hull is
\* cut back to its longest prefix whose last two points do not pop
SetMax(S) == CHOOSE m \in S : \A k \in S : k <= m

PopWhile(hull, point) ==
    SubSeq(hull, 1,
           SetMax({m \in 1..Len(hull) :
                      \/ m = 1
                      \/ ~PopsOnTurn(CrossProduct(hull[m - 1], hull[m], point))}))

GrahamStep(hull, point) == Append(PopWhile(hull, point), point)

GrahamScan(sorted, hull) == FoldSeq(GrahamStep, hull, sorted, 1, Len(sorted))

ConvexHull(points) ==
    IF Len(points) < 3 THEN points
    ELSE LET start == HullStart(points)
             NotStart(p) == p # start
             sorted == SortedByAngle(start, SelectSeq(points, NotStart))
         IN  GrahamScan(sorted, <<start>>)

SumLess(p, min) == PX(p) + PY(p) < PX(min) + PY(min)
DiffMore(p, max) == PX(p) - PY(p) > PX(max) - PY(max)
SumMore(p, max) == PX(p) + PY(p) > PX(max) + PY(max)
DiffLess(p, min) == PX(p) - PY(p) < PX(min) - PY(min)

\* a faulty fitter that keeps the first four vertices
ApproximateToFirstFour(hull) ==
    IF Len(hull) <= 4 THEN hull ELSE SubSeq(hull, 1, 4)

ApproximateToQuadrilateral(hull) ==
    IF Len(hull) <= 4 THEN hull
    ELSE << Reduce(SumLess, hull), Reduce(DiffMore, hull),
            Reduce(SumMore, hull), Reduce(DiffLess, hull) >>

\* null is NoCorners
FindRectangleCorners(contour) ==
    IF Len(contour) < 4 THEN NoCorners
    ELSE LET hull == ConvexHull(contour)
         IN  IF Len(hull) < 4 THEN NoCorners
             ELSE ApproximateToQuadrilateral(hull)

(***************************************************************************)
(* calculatePolygonArea (doubled: the shoelace sum before the division by  *)
(* 2), calculateAngle and isValidRectangle.                                *)
(***************************************************************************)
RECURSIVE ShoelaceFrom(_, _)
ShoelaceFrom(points, i) ==
    IF i > Len(points) THEN 0
    ELSE LET j == (i % Len(points)) + 1
         IN  PX(points[i]) * PY(points[j]) - PX(points[j]) * PY(points[i])
             + ShoelaceFrom(points, i + 1)

PolygonArea2(points) ==
    IF Len(points) < 3 THEN 0 ELSE Abs(ShoelaceFrom(points, 1))

\* |acos(clamp(cos)) * 180 / pi - 90| < 30, that is -1/2 < cos < 1/2, with
\* cos = dot / (mag1 * mag2); a zero-length side makes cos NaN and every
\* comparison with NaN false.
AngleNearRight(p1, p2, p3) ==
    LET v1x == PX(p1) - PX(p2)
        v1y == PY(p1) - PY(p2)
        v2x == PX(p3) - PX(p2)
        v2y == PY(p3) - PY(p2)
        dot == v1x * v2x + v1y * v2y
        m1 == v1x * v1x + v1y * v1y
        m2 == v2x * v2x + v2y * v2y
    IN  m1 > 0 /\ m2 > 0 /\ 4 * dot * dot < m1 * m2

IsValidRectangle(corners) ==
    /\ Len(corners) = 4
    /\ \A i \in 0..3 :
          AngleNearRight(corners[i + 1], corners[((i + 1) % 4) + 1],
                         corners[((i + 2) % 4) + 1])

(***************************************************************************)
(* findDocumentRectangles: the seed loop, one seed after another in        *)
(* row-major order, and the final sort by area, largest first.             *)
(***************************************************************************)
\* a faulty area test that lets every area through
AreaUnchecked(area2, width, height) == area2 >= 0

\* area > (width * height) * 0.1 && area < (width * height) * 0.8
AreaInBounds(area2, width, height) ==
    5 * area2 > width * height /\ 5 * area2 < 8 * width * height

AcceptsCandidate(corners, width, height) ==
    /\ corners # NoCorners
    /\ Len(corners) = 4
    /\ AreaInBounds(PolygonArea2(corners), width, height)
    /\ IsValidRectangle(corners)

\* a faulty test that asks only for the four points a quadrilateral needs
ContourHasFourPoints(contour) == Len(contour) >= 4

ContourLongEnough(contour) == Len(contour) > MinContourLength

\* a faulty seed loop that starts next to the image border:
\* for (let c = 1; c < limit - 1; c += 5)
SeedCoordsFromBorder(limit) ==
    LET count == Cardinality({c \in 1..(limit - 2) : (c - 1) % SeedStride = 0})
    IN  [k \in 1..count |-> 1 + (k - 1) * SeedStride]

\* for (let c = 10; c < limit - 10; c += 5): the values c takes, in order
SeedCoords(limit) ==
    LET count == Cardinality({c \in SeedBorder..(limit - SeedBorder - 1) :
                                 (c - SeedBorder) % SeedStride = 0})
    IN  [k \in 1..count |-> SeedBorder + (k - 1) * SeedStride]

\* the seeds in loop order: y outer, x inner
SeedList(width, height) ==
    LET xs == SeedCoords(width)
        ys == SeedCoords(height)
        nx == Len(xs)
    IN  Stored([k \in 1..(nx * Len(ys)) |->
                   Pt(xs[((k - 1) % nx) + 1], ys[((k - 1) \div nx) + 1])])

\* a faulty selection that leaves the list in discovery order
LeftInDiscoveryOrder(rects) == rects

\* sort((a, b) => area(b) - area(a)), stable
SortByAreaDesc(rects) ==
    LET n == Len(rects)
        a2 == Stored([i \in 1..n |-> PolygonArea2(rects[i])])
        rank(i) == Cardinality({j \in 1..n : a2[j] > a2[i]})
                 + Cardinality({j \in 1..(i - 1) : a2[j] = a2[i]}) + 1
    IN  Stored([r \in 1..n |-> rects[CHOOSE i \in 1..n : rank(i) = r]])

\* one iteration of the seed loop at seed p: the scan state is
\* [visited, rectangles]
SeedIteration(edges, width, height, p, scan) ==
    LET index == PY(p) * width + PX(p)
    IN  IF edges[index] > 0 /\ index \notin scan.visited
        THEN LET t == TraceContour(edges, width, height, PX(p), PY(p), scan.visited)
                 corners == IF ContourLongEnough(t.contour)
                            THEN FindRectangleCorners(t.contour)
                            ELSE NoCorners
             IN  [visited |-> t.visited,
                  rectangles |-> IF AcceptsCandidate(corners, width, height)
                                 THEN Append(scan.rectangles, corners)
                                 ELSE scan.rectangles,
                  contour |-> t.contour,
                  fitted |-> ContourLongEnough(t.contour),
                  corners |-> corners]
        ELSE [visited |-> scan.visited, rectangles |-> scan.rectangles,
              contour |-> <<>>, fitted |-> FALSE, corners |-> NoCorners]

SeedLoop(edges, width, height) ==
    LET Step(scan, p) == SeedIteration(edges, width, height, p, scan)
        seeds == SeedList(width, height)
    IN  FoldSeq(Step, [visited |-> {}, rectangles |-> <<>>], seeds, 1, Len(seeds))

FindDocumentRectangles(edges, width, height) ==
    SortByAreaDesc(SeedLoop(edges, width, height).rectangles)

FirstOrNone(rectangles) ==
    IF Len(rectangles) > 0 THEN rectangles[1] ELSE NoCorners

\* detectDocumentEdges on the RGBA frame `data` of width x height
DetectDocumentEdges(data, width, height) ==
    LET grayData == ConvertToGrayscale(data, width * height)
        blurredData == GaussianBlur(grayData, width, height)
        edges == SobelEdgeDetection(blurredData, width, height)
    IN  FirstOrNone(FindDocumentRectangles(edges, width, height))

(***************************************************************************)
(* Frames.  A frame is a background colour with rectangles painted over it *)
(* in order; ImageData is the RGBA buffer getImageData returns for it (the *)
(* alpha channel is never read by the pipeline).                           *)
(***************************************************************************)
Black == <<0, 0, 0>>
White == <<255, 255, 255>>

PixelAt(frame, i) ==
    LET x == i % frame.w
        y == i \div frame.w
        over == {k \in 1..Len(frame.shapes) :
                    /\ x >= frame.shapes[k].x0 /\ x < frame.shapes[k].x1
                    /\ y >= frame.shapes[k].y0 /\ y < frame.shapes[k].y1}
    IN  IF over = {} THEN frame.bg
        ELSE frame.shapes[CHOOSE k \in over : \A m \in over : m <= k].c

ImageData(frame) == Stored([i \in 0..(frame.w * frame.h - 1) |-> PixelAt(frame, i)])

Shape(x0, y0, x1, y1, c) == [x0 |-> x0, y0 |-> y0, x1 |-> x1, y1 |-> y1, c |-> c]

\* bounds of the frames the model feeds to the detector
MinConstSide == 21
MaxConstSide == 22
MinRectSide == 30
MaxRectSide == 31
MinInset == 8
MaxInset == 12

Colours == {Black, White, <<10, 10, 10>>, <<200, 200, 200>>, <<255, 0, 0>>}

ConstantFrames ==
    {[w |-> w, h |-> h, bg |-> c, shapes |-> <<>>] :
        w \in MinConstSide..MaxConstSide, h \in MinConstSide..MaxConstSide,
        c \in Colours}

\* a white square, centred, on black
CentredFrame(side, inset) ==
    [w |-> side, h |-> side, bg |-> Black,
     shapes |-> <<Shape(inset, inset, side - inset, side - inset, White)>>]

CentredFrames ==
    {CentredFrame(side, inset) :
        side \in MinRectSide..MaxRectSide, inset \in MinInset..MaxInset}

\* two white squares side by side, the smaller one met first by the seed loop,
\* and the mirror image
TwoSquaresFrame ==
    [w |-> 44, h |-> 30, bg |-> Black,
     shapes |-> <<Shape(9, 10, 19, 20, White), Shape(25, 8, 36, 19, White)>>]

TwoSquaresMirrored ==
    [w |-> 44, h |-> 30, bg |-> Black,
     shapes |-> <<Shape(8, 8, 19, 19, White), Shape(25, 10, 35, 20, White)>>]

\* a white square whose fitted quadrilateral has exactly 10% of the frame's area
TenPercentFrame ==
    [w |-> 25, h |-> 26, bg |-> Black, shapes |-> <<Shape(8, 8, 14, 14, White)>>]

Frames ==
    ConstantFrames \cup CentredFrames
        \cup {TwoSquaresFrame, TwoSquaresMirrored, TenPercentFrame}

IsConstantFrame(f) == f.shapes = <<>>

(***************************************************************************)
(* The scenes the SmartDocumentScanner camera shows: a centred square that *)
(* is detected as a quadrilateral, and a dark frame in which nothing is    *)
(* detected.  SceneCorners is what detectDocumentEdges returns on each.    *)
(***************************************************************************)
Scenes ==
    <<CentredFrame(MinRectSide, MinInset + 2),
      [w |-> MinRectSide, h |-> MinRectSide, bg |-> Black, shapes |-> <<>>]>>

SceneCorners ==
    Stored([k \in 1..Len(Scenes) |->
               DetectDocumentEdges(ImageData(Scenes[k]), Scenes[k].w, Scenes[k].h)])

\* video.videoWidth once the metadata of the stream has loaded
VideoWidth == Scenes[1].w

(***************************************************************************)
(* SmartDocumentScanner: the tests and the store of the detection pass.    *)
(***************************************************************************)
\* a pass started whenever the video has a size
StartsWhenVideoReady(detecting, width) == width # 0

\* if (this.isDetecting || !this.video.videoWidth) return;
PassMayStart(detecting, width) == ~(detecting \/ width = 0)

\* if (!this.isDetecting) { this.detectDocumentInRealTime(); }
TimerCalls(detecting) == ~detecting

\* a pass that found nothing leaves the earlier quadrilateral in place
KeepDetected(old, found) == IF found = NoCorners THEN old ELSE found

\* this.lastDetectedCorners = corners;
StoreResult(old, found) == found

\* the smallest identifier of `ids` that is not in `used` (0 when none is left)
FreshId(ids, used) ==
    IF ids \subseteq used THEN 0
    ELSE CHOOSE i \in ids \ used : \A j \in ids \ used : i <= j

\* this.facingMode === 'environment' ? 'user' : 'environment'
OtherFacing(mode) == IF mode = "environment" THEN "user" ELSE "environment"

\* this.capturedImages.filter(img => img.id !== id)
WithoutId(images, id) == SelectSeq(images, LAMBDA img : img.id # id)

(***************************************************************************)
(* SmartDocumentScanner: the rectifier.  outputHeight = outputWidth /      *)
(* (210 / 297) is not an integer; it is kept as the rational               *)
(* OutputHeightNum / AspectWidth.  A canvas height and the height of       *)
(* createImageData are integers: the conversion truncates.                 *)
(***************************************************************************)
TargetWidth == 800
AspectWidth == 210
AspectHeight == 297

OutputHeightNum(outputWidth) == outputWidth * AspectHeight

\* the integer a canvas or an ImageData keeps of the height num/den
Truncated(num, den) == num \div den

\* y < destHeight
RowInLoop(y, num, den) == y * den < num

\* Math.round of the non-negative rational num/den
RoundHalfUp(num, den) == (2 * num + den) \div (2 * den)

\* sortCornersForPerspective
SortCornersForPerspective(corners) ==
    << Reduce(SumLess, corners), Reduce(DiffMore, corners),
       Reduce(SumMore, corners), Reduce(DiffLess, corners) >>

\* the source pixel of the first destination pixel (x = 0) of row y:
\* u = 0, v = y / destHeight = y * AspectWidth / num
SourceOfRow(sorted, y, num) ==
    Pt(RoundHalfUp(PX(sorted[1]) * (num - y * AspectWidth)
                     + PX(sorted[4]) * (y * AspectWidth), num),
       RoundHalfUp(PY(sorted[1]) * (num - y * AspectWidth)
                     + PY(sorted[4]) * (y * AspectWidth), num))

\* a faulty bounds test that lets the column and the row after the last through
InsideOrJustBeyond(p, width, height) ==
    PX(p) >= 0 /\ PX(p) <= width /\ PY(p) >= 0 /\ PY(p) <= height

\* sourceX >= 0 && sourceX < width && sourceY >= 0 && sourceY < height
InsideSource(p, width, height) ==
    PX(p) >= 0 /\ PX(p) < width /\ PY(p) >= 0 /\ PY(p) < height

\* a store into a typed array lands only at an index below its length
StoreLands(index, length) == index >= 0 /\ index < length

(***************************************************************************)
(* DocumentScanner (src/smart-scanner.js, second class): detection by a    *)
(* window scan for corner points.  Its convertToGrayscale, gaussianBlur    *)
(* and cannyEdgeDetection are copies of the code modelled above.  A call   *)
(* that ends in an exception is the record [threw |-> TRUE].               *)
(***************************************************************************)
WindowMargin == 100
WindowStride == 20
SearchRadius == 50
CornerRadius == 3
CornerMinEdges == 3

Returned(rect) == [threw |-> FALSE, rect |-> rect]
Thrown == [threw |-> TRUE, rect |-> NoCorners]

\* DocumentScanner.convertToGrayscale / gaussianBlur / cannyEdgeDetection
AppEdges(data, width, height) ==
    SobelEdgeDetection(
        GaussianBlur(ConvertToGrayscale(data, width * height), width, height),
        width, height)

IsCornerPoint(edges, width, height, x, y) ==
    Cardinality({d \in {Pt(dx, dy) : dx \in -CornerRadius..CornerRadius,
                                     dy \in -CornerRadius..CornerRadius} :
                    /\ x + PX(d) >= 0 /\ x + PX(d) < width
                    /\ y + PY(d) >= 0 /\ y + PY(d) < height
                    /\ edges[(y + PY(d)) * width + (x + PX(d))] > 0})
        >= CornerMinEdges

Max2(a, b) == IF a > b THEN a ELSE b
Min2(a, b) == IF a < b THEN a ELSE b

\* the order in which the two loops of findRectangleAt meet two points
RowMajorBefore(a, b) == PY(a) < PY(b) \/ (PY(a) = PY(b) /\ PX(a) < PX(b))

\* the points of a set as a list, rows first
RowMajorList(points) ==
    LET n == Cardinality(points)
        rank == Stored([p \in points |->
                           Cardinality({q \in points : RowMajorBefore(q, p)}) + 1])
    IN  Stored([r \in 1..n |-> CHOOSE p \in points : rank[p] = r])

\* the corner points the two loops of findRectangleAt push, in push order
\* (rows outer, columns inner)
WindowCorners(edges, width, height, startX, startY) ==
    RowMajorList({p \in {Pt(x, y) :
                             x \in Max2(0, startX - SearchRadius)
                                     ..(Min2(width, startX + SearchRadius) - 1),
                             y \in Max2(0, startY - SearchRadius)
                                     ..(Min2(height, startY + SearchRadius) - 1)} :
                     /\ edges[PY(p) * width + PX(p)] > 0
                     /\ IsCornerPoint(edges, width, height, PX(p), PY(p))})

\* corners.find(test) || fallback
FindFirst(corners, Test(_), fallback) ==
    LET hits == {k \in 1..Len(corners) : Test(corners[k])}
    IN  IF hits = {} THEN fallback
        ELSE corners[CHOOSE k \in hits : \A j \in hits : k <= j]

\* corners[corners.length / 2] is undefined for an odd length, and reading
\* its .y inside the first find callback throws a TypeError
MiddleIsDefined(corners) == Len(corners) % 2 = 0

\* findBestRectangle; its sort (y, then x) leaves the list as it is, the
\* corners having been pushed in that order
FindBestRectangle(corners) ==
    IF Len(corners) < 4 THEN Returned(NoCorners)
    ELSE IF ~MiddleIsDefined(corners) THEN Thrown
    ELSE LET n == Len(corners)
             middle == corners[(n \div 2) + 1]
             topLeft == corners[1]
             bottomRight == corners[n]
             IsTopRight(c) == PY(c) < PY(middle) /\ PX(c) > PX(topLeft)
             IsBottomLeft(c) == PY(c) > PY(middle) /\ PX(c) < PX(bottomRight)
         IN  Returned(<<topLeft,
                        FindFirst(corners, IsTopRight, corners[2]),
                        bottomRight,
                        FindFirst(corners, IsBottomLeft, corners[n - 1])>>)

FindRectangleAt(edges, width, height, startX, startY) ==
    LET corners == WindowCorners(edges, width, height, startX, startY)
    IN  IF Len(corners) >= 4 THEN FindBestRectangle(corners)
        ELSE Returned(NoCorners)

\* twice DocumentScanner.calculateArea (rectangles have four corners)
CalculateArea2(corners) ==
    IF corners = NoCorners \/ Len(corners) < 4 THEN 0
    ELSE Abs(  (PX(corners[1]) * PY(corners[2]) - PX(corners[2]) * PY(corners[1]))
             + (PX(corners[2]) * PY(corners[3]) - PX(corners[3]) * PY(corners[2]))
             + (PX(corners[3]) * PY(corners[4]) - PX(corners[4]) * PY(corners[3]))
             + (PX(corners[4]) * PY(corners[1]) - PX(corners[1]) * PY(corners[4])))

\* for (let c = 0; c < limit - 100; c += 20): the values c takes, in order
WindowCoords(limit) ==
    LET count == Cardinality({c \in 0..(limit - WindowMargin - 1) : c % WindowStride = 0})
    IN  [k \in 1..count |-> (k - 1) * WindowStride]

\* the window origins in loop order: y outer, x inner
WindowList(width, height) ==
    LET xs == WindowCoords(width)
        ys == WindowCoords(height)
        nx == Len(xs)
    IN  Stored([k \in 1..(nx * Len(ys)) |->
                   Pt(xs[((k - 1) % nx) + 1], ys[((k - 1) \div nx) + 1])])

\* rect && calculateArea(rect) > (width * height) * 0.1
LargeEnough(rect, width, height) ==
    rect # NoCorners /\ 5 * CalculateArea2(rect) > width * height

\* the pushed rectangles sorted by area, largest first (stable)
LargestFirst(rects) ==
    LET n == Len(rects)
        a2 == Stored([i \in 1..n |-> CalculateArea2(rects[i])])
        rank == Stored([i \in 1..n |->
                    Cardinality({j \in 1..n : a2[j] > a2[i]})
                  + Cardinality({j \in 1..(i - 1) : a2[j] = a2[i]}) + 1])
    IN  Stored([r \in 1..n |-> rects[CHOOSE i \in 1..n : rank[i] = r]])

\* findRectangularContours: [threw, rectangles]
FindRectangularContours(edges, width, height) ==
    LET windows == WindowList(width, height)
        found == Stored([k \in 1..Len(windows) |->
                     FindRectangleAt(edges, width, height,
                                     PX(windows[k]), PY(windows[k]))])
        kept == {k \in 1..Len(windows) :
                    LargeEnough(found[k].rect, width, height)}
        pushed == Stored([r \in 1..Cardinality(kept) |->
                     found[CHOOSE k \in kept :
                               Cardinality({j \in kept : j < k}) = r - 1].rect])
    IN  IF \E k \in 1..Len(windows) : found[k].threw
        THEN [threw |-> TRUE, rectangles |-> <<>>]
        ELSE [threw |-> FALSE, rectangles |-> LargestFirst(pushed)]

\* DocumentScanner.detectDocumentEdges: rectangles[0] or null
AppDetectDocumentEdges(data, width, height) ==
    LET found == FindRectangularContours(AppEdges(data, width, height), width, height)
    IN  IF found.threw THEN Thrown
        ELSE Returned(FirstOrNone(found.rectangles))

(***************************************************************************)
(* The frames the DocumentScanner camera shows, AppSide pixels wide and    *)
(* high (the smallest size at which the window scan has a window): dark,   *)
(* bright, and dark with three bright marks.                               *)
(***************************************************************************)
AppSide == 101

ThreeMarksFrame ==
    [w |-> AppSide, h |-> AppSide, bg |-> Black,
     shapes |-> <<Shape(23, 3, 25, 5, White), Shape(1, 46, 7, 48, White),
                  Shape(45, 46, 46, 50, White)>>]

AppFrames ==
    <<[w |-> AppSide, h |-> AppSide, bg |-> Black, shapes |-> <<>>],
      [w |-> AppSide, h |-> AppSide, bg |-> White, shapes |-> <<>>],
      ThreeMarksFrame>>

\* what detectDocumentEdges does on each frame
AppDetection ==
    Stored([k \in 1..Len(AppFrames) |->
               AppDetectDocumentEdges(ImageData(AppFrames[k]),
                                      AppFrames[k].w, AppFrames[k].h)])

Filters == {"original", "grayscale", "blackwhite", "enhance"}

(***************************************************************************)
(* Bounds of the state machines.                                           *)
(***************************************************************************)
MaxCalls == 1       \* startCamera calls that may be awaiting at once
MaxStreams == 1     \* camera streams that may exist at once
MaxTimers == 2      \* interval timers that may exist at once
MaxImages == 1      \* captured images kept
MaxNow == 1         \* the last value of Date.now()
MaxAppImages == 2   \* pages DocumentScanner keeps or has pending
MaxPasses == 2      \* detection passes the model can hold in flight

Calls == 1..MaxCalls
StreamIds == 1..MaxStreams
TimerIds == 1..MaxTimers

VARIABLES
    \* one detection pass, stage by stage (detectDocumentEdges and the seed
    \* loop of findDocumentRectangles)
    curFrame,          \* the frame on the canvas
    curStage,          \* "idle", "frame", "gray", "blurred", "edges", "done"
    curGray,           \* output of convertToGrayscale
    curBlurred,        \* output of gaussianBlur
    curEdges,          \* output of sobelEdgeDetection
    seedIndex,         \* the next seed of the seed loop
    curVisited,        \* the indices marked visited in this pass
    curRectangles,     \* the quadrilaterals pushed so far (sorted at the end)
    curContours,       \* the contours traced so far
    curCandidates,     \* the corner lists fitted so far (NoCorners: none fitted)
    curFitted,         \* history: per contour, whether findRectangleCorners was called
    curResult,         \* what detectDocumentEdges returns

    \* SmartDocumentScanner and its page
    stream,            \* this.stream: a stream identifier, 0 is null
    liveStreams,       \* the streams whose tracks have not been stopped
    tracksEnabled,     \* track.enabled of the tracks of this.stream
    facingMode,        \* this.facingMode
    srcObject,         \* video.srcObject: a stream identifier, 0 is none
    videoWidth,        \* video.videoWidth (0 until the metadata has loaded)
    metadataPending,   \* the video has still to fire loadedmetadata
    metadataOwner,     \* the startCamera call video.onloadedmetadata resolves
    callPc,            \* where each startCamera call is waiting
    uiState,           \* the state last given to updateUI
    detectionInterval, \* this.detectionInterval: a timer identifier, 0 is null
    activeTimers,      \* the interval timers that have not been cleared
    hidden,            \* document.hidden
    isDetecting,       \* this.isDetecting
    lastDetectedCorners, \* this.lastDetectedCorners (NoCorners is null)
    capturedImages,    \* this.capturedImages
    now,               \* Date.now()
    canvasScene,       \* the scene drawn on this.canvas (0: an empty canvas)
    passes,            \* the detection passes in flight: [pc, found]
    lastTick,          \* history: what the last trigger did to the pass in flight
    latestCompleted,   \* history: the result of the last completed pass
    overwritten,       \* history: the last pass replaced a quadrilateral by none
    lastCapture,       \* history: what the last captureDocument call did

    \* one run of the rectifier
    rPc,               \* "idle", "canvas", "prepare", "loop", "draw", "done"
    rPath,             \* "perspective" or "smartCrop"
    rCorners,          \* the corners given, then the sorted corners
    outCanvas,         \* width and height of the output canvas
    destRows,          \* rows of destImageData
    loopY,             \* y of the destination loop
    rowsStored,        \* rows whose first pixel was stored in the buffer
    rowsDropped,       \* rows whose first pixel was stored beyond the buffer

    \* DocumentScanner and its page
    appControls,       \* the capture, switch and filter controls are shown
    appRequests,       \* startCamera calls awaiting getUserMedia
    appFacing,         \* this.facingMode
    appVideo,          \* "none", "loading" (videoWidth 0) or "playing"
    appImages,         \* this.capturedImages
    currentFilter,     \* this.currentFilter
    appPending,        \* captures awaiting img.onload in applyFilterToImage
    appNow,            \* Date.now()
    appLast,           \* history: what the last captureImage call did

    \* one call of sortCornersForPerspective, and a second one on its result
    sortIn,            \* the corners given (NoCorners: no call is followed)
    sortOut,           \* the list returned
    sortAgain,         \* the list returned for sortOut

    \* one destination pixel of applyPerspectiveCorrection, then of
    \* enhanceDocument
    pxPc,              \* "idle", "given", "mapped", "enhanced"
    pxCorners,         \* the corners given
    pxX,               \* x of the destination loop
    pxY,               \* y of the destination loop
    pxSource,          \* (sourceX, sourceY)
    pxRead,            \* the sourceIndex read (-1: no read)
    pxDest,            \* the pixel in destImageData (<<>>: beyond the buffer)
    pxOut,             \* the pixel after enhanceDocument
    rawPc,             \* a buffer handed to the first stages: "given", "gray", "blurred"
    rawImage,          \* [width, height, data]: data is any sequence of bytes
    rawGray,           \* grayData returned by convertToGrayscale
    rawBlurred,        \* the result of gaussianBlur on rawGray
    rawOutcome,        \* history: "returned", or the name of the error thrown
    rawReadsOutside,   \* history: indices read at or beyond data.length
    rawStoresOutside,  \* history: indices stored at or beyond grayData.length
    tnPc,              \* a pixel enhanced with given settings: "given", "once", "twice"
    tnContrast,        \* <<numerator, denominator>> of the contrast
    tnBrightness,
    tnIn,              \* the pixel <<r, g, b, a>>
    tnOut,             \* the pixel after the enhancer's loop body, once or twice
    crPc,              \* a fallback crop computed on its own: "given", "cropped"
    crClass,           \* whose smartCrop: "SmartDocumentScanner" or "DocumentScanner"
    crSource,          \* [w, h] of the source canvas
    crop,              \* [x, y, w, h] of the drawImage call, each <<numerator, denominator>>
    hullPc,            \* corner fitting on a point list: "given", "hull", "fitted"
    hullIn,            \* the point list
    hullOut,           \* what convexHull returned
    hullQuad           \* what findRectangleCorners returned (NoCorners: null)

detectVars ==
    <<curFrame, curStage, curGray, curBlurred, curEdges, seedIndex, curVisited,
      curRectangles, curContours, curCandidates, curFitted,
      curResult>>

cameraVars ==
    <<stream, liveStreams, tracksEnabled, facingMode, srcObject, videoWidth,
      metadataPending, metadataOwner, callPc, uiState>>

timerVars == <<detectionInterval, activeTimers>>

passVars ==
    <<isDetecting, lastDetectedCorners, canvasScene, passes, latestCompleted,
      overwritten>>

imageVars == <<capturedImages, lastCapture>>

\* the state of the scanner without the history variable lastTick
scannerCore == <<cameraVars, timerVars, passVars, imageVars, hidden, now>>

scannerVars == <<scannerCore, lastTick>>

rectifyVars ==
    <<rPc, rPath, rCorners, outCanvas, destRows, loopY, rowsStored, rowsDropped>>

appVars ==
    <<appControls, appRequests, appFacing, appVideo, appImages, currentFilter,
      appPending, appNow, appLast>>

sortVars == <<sortIn, sortOut, sortAgain>>

\* the state of the stages that are followed on their own
pixelVars == <<pxPc, pxCorners, pxX, pxY, pxSource, pxRead, pxDest, pxOut>>

rawVars ==
    <<rawPc, rawImage, rawGray, rawBlurred, rawOutcome, rawReadsOutside, rawStoresOutside>>

toneVars == <<tnPc, tnContrast, tnBrightness, tnIn, tnOut>>

cropVars == <<crPc, crClass, crSource, crop>>

hullVars == <<hullPc, hullIn, hullOut, hullQuad>>

stageVars == <<sortVars, pixelVars, rawVars, toneVars, cropVars, hullVars>>

vars == <<detectVars, scannerVars, rectifyVars, appVars, stageVars>>

(***************************************************************************)
(* Initial states.                                                         *)
(***************************************************************************)
NoFrame == [w |-> 0, h |-> 0, bg |-> Black, shapes |-> <<>>]

DetectFresh ==
    /\ curGray = <<>>
    /\ curBlurred = <<>>
    /\ curEdges = <<>>
    /\ seedIndex = 1
    /\ curVisited = {}
    /\ curRectangles = <<>>
    /\ curContours = <<>>
    /\ curCandidates = <<>>
    /\ curFitted = <<>>
    /\ curResult = NoCorners

\* no detection pass is being followed
DetectIdle == curFrame = NoFrame /\ curStage = "idle" /\ DetectFresh

\* a frame is on the canvas and detectDocumentEdges is about to run
DetectStart == curFrame \in Frames /\ curStage = "frame" /\ DetectFresh

NoCapture ==
    [outcome |-> "none", path |-> "none", used |-> NoCorners, latest |-> NoCorners]

\* SmartDocumentScanner after its constructor (lines 3-15), with room for the
\* startCamera calls `calls`
ScannerStartWith(calls) ==
    /\ stream = 0
    /\ liveStreams = {}
    /\ tracksEnabled = TRUE
    /\ facingMode = "environment"
    /\ srcObject = 0
    /\ videoWidth = 0
    /\ metadataPending = FALSE
    /\ metadataOwner = 0
    /\ callPc = [c \in calls |-> "idle"]
    /\ uiState = "initial"
    /\ detectionInterval = 0
    /\ activeTimers = {}
    /\ hidden = FALSE
    /\ isDetecting = FALSE
    /\ lastDetectedCorners = NoCorners
    /\ capturedImages = <<>>
    /\ now = 0
    /\ canvasScene = 0
    /\ passes = <<>>
    /\ lastTick = "none"
    /\ latestCompleted = NoCorners
    /\ overwritten = FALSE
    /\ lastCapture = NoCapture

ScannerStart == ScannerStartWith(Calls)

RectifyStart ==
    /\ rPc = "idle"
    /\ rPath = "none"
    /\ rCorners = NoCorners
    /\ outCanvas = [w |-> 0, h |-> 0]
    /\ destRows = 0
    /\ loopY = 0
    /\ rowsStored = 0
    /\ rowsDropped = 0

\* frame: the frame of AppFrames on the canvas (0: the canvas had no size)
NoAppCapture ==
    [outcome |-> "none", path |-> "none", corners |-> NoCorners, frame |-> 0]

\* DocumentScanner after its constructor (lines 771-777)
AppStart ==
    /\ appControls = FALSE
    /\ appRequests = 0
    /\ appFacing = "environment"
    /\ appVideo = "none"
    /\ appImages = <<>>
    /\ currentFilter = "original"
    /\ appPending = <<>>
    /\ appNow = 0
    /\ appLast = NoAppCapture

(***************************************************************************)
(* One detection pass, stage by stage.                                     *)
(***************************************************************************)
SortIdle == sortIn = NoCorners /\ sortOut = NoCorners /\ sortAgain = NoCorners

\* no stage is being followed on its own
PixelIdle ==
    /\ pxPc = "idle"
    /\ pxCorners = NoCorners
    /\ pxX = 0
    /\ pxY = 0
    /\ pxSource = Pt(0, 0)
    /\ pxRead = -1
    /\ pxDest = <<>>
    /\ pxOut = <<>>

RawIdle ==
    /\ rawPc = "idle"
    /\ rawImage = [width |-> 0, height |-> 0, data |-> <<>>]
    /\ rawGray = <<>>
    /\ rawBlurred = <<>>
    /\ rawOutcome = "none"
    /\ rawReadsOutside = {}
    /\ rawStoresOutside = {}

ToneIdle ==
    /\ tnPc = "idle"
    /\ tnContrast = <<1, 1>>
    /\ tnBrightness = 0
    /\ tnIn = <<>>
    /\ tnOut = <<>>

NoCrop == [x |-> <<0, 1>>, y |-> <<0, 1>>, w |-> <<0, 1>>, h |-> <<0, 1>>]

CropIdle ==
    /\ crPc = "idle"
    /\ crClass = "none"
    /\ crSource = [w |-> 0, h |-> 0]
    /\ crop = NoCrop

HullIdle ==
    /\ hullPc = "idle"
    /\ hullIn = <<>>
    /\ hullOut = <<>>
    /\ hullQuad = NoCorners

StagesIdle == SortIdle /\ PixelIdle /\ RawIdle /\ ToneIdle /\ CropIdle /\ HullIdle

DetectInit == DetectStart /\ ScannerStart /\ RectifyStart /\ AppStart /\ StagesIdle

Seeds == SeedList(curFrame.w, curFrame.h)

DoGrayscale ==
    /\ curStage = "frame"
    /\ curGray' = ConvertToGrayscale(ImageData(curFrame), curFrame.w * curFrame.h)
    /\ curStage' = "gray"
    /\ UNCHANGED <<curFrame, curBlurred, curEdges, seedIndex, curVisited, curRectangles,
                   curContours, curCandidates, curFitted,
                   curResult>>
    /\ UNCHANGED <<scannerVars, rectifyVars, appVars, stageVars>>

DoBlur ==
    /\ curStage = "gray"
    /\ curBlurred' = GaussianBlur(curGray, curFrame.w, curFrame.h)
    /\ curStage' = "blurred"
    /\ UNCHANGED <<curFrame, curGray, curEdges, seedIndex, curVisited, curRectangles,
                   curContours, curCandidates, curFitted,
                   curResult>>
    /\ UNCHANGED <<scannerVars, rectifyVars, appVars, stageVars>>

DoSobel ==
    /\ curStage = "blurred"
    /\ curEdges' = SobelEdgeDetection(curBlurred, curFrame.w, curFrame.h)
    /\ curStage' = "edges"
    /\ UNCHANGED <<curFrame, curGray, curBlurred, seedIndex, curVisited,
                   curRectangles, curContours, curCandidates, curFitted,
                   curResult>>
    /\ UNCHANGED <<scannerVars, rectifyVars, appVars, stageVars>>

\* one iteration of the seed loop
DoSeed ==
    /\ curStage = "edges"
    /\ seedIndex <= Len(Seeds)
    /\ \E scan \in {SeedIteration(curEdges, curFrame.w, curFrame.h, Seeds[seedIndex],
                                   [visited |-> curVisited,
                                    rectangles |-> curRectangles])} :
           /\ curVisited' = scan.visited
           /\ curRectangles' = scan.rectangles
           /\ curContours' = IF scan.contour = <<>> THEN curContours
                             ELSE Append(curContours, scan.contour)
           /\ curCandidates' = IF scan.contour = <<>> THEN curCandidates
                               ELSE Append(curCandidates, scan.corners)
           /\ curFitted' = IF scan.contour = <<>> THEN curFitted
                           ELSE Append(curFitted, scan.fitted)
    /\ seedIndex' = seedIndex + 1
    /\ UNCHANGED <<curFrame, curStage, curGray, curBlurred, curEdges, curResult>>
    /\ UNCHANGED <<scannerVars, rectifyVars, appVars, stageVars>>

\* the sort and `rectangles.length > 0 ? rectangles[0] : null`
DoSelect ==
    /\ curStage = "edges"
    /\ seedIndex > Len(Seeds)
    /\ \E sorted \in {SortByAreaDesc(curRectangles)} :
           /\ curRectangles' = sorted
           /\ curResult' = FirstOrNone(sorted)
    /\ curStage' = "done"
    /\ UNCHANGED <<curFrame, curGray, curBlurred, curEdges, seedIndex, curVisited,
                   curContours, curCandidates, curFitted>>
    /\ UNCHANGED <<scannerVars, rectifyVars, appVars, stageVars>>

DetectNext == DoGrayscale \/ DoBlur \/ DoSobel \/ DoSeed \/ DoSelect

DetectSpec == DetectInit /\ [][DetectNext]_vars

(***************************************************************************)
(* SmartDocumentScanner.  A handler runs as one action up to its next      *)
(* await.  detectDocumentInRealTime is followed statement by statement     *)
(* (PassBegin, PassDetect or PassThrows, PassStore) and other handlers may *)
(* run between its statements: this admits every schedule of the browser   *)
(* and more, so what holds here holds in the browser.                      *)
(***************************************************************************)
Init == DetectIdle /\ ScannerStart /\ RectifyStart /\ AppStart /\ StagesIdle

\* startCamera up to its await of getUserMedia (lines 39-57), as call c
StartCamera(c) ==
    /\ callPc[c] = "idle"
    /\ liveStreams' = IF stream # 0 THEN liveStreams \ {stream} ELSE liveStreams
    /\ callPc' = [callPc EXCEPT ![c] = "getUserMedia"]

\* click on startBtn
ClickStart ==
    /\ uiState \in {"initial", "camera-stopped"}
    /\ \E c \in DOMAIN callPc : StartCamera(c)
    /\ UNCHANGED <<stream, tracksEnabled, facingMode, srcObject, videoWidth,
                   metadataPending, metadataOwner, uiState>>
    /\ UNCHANGED <<timerVars, passVars, imageVars, hidden, now, lastTick>>
    /\ UNCHANGED <<detectVars, rectifyVars, appVars, stageVars>>

\* click on switchBtn: switchCamera (lines 590-593)
ClickSwitch ==
    /\ uiState = "camera-started"
    /\ facingMode' = OtherFacing(facingMode)
    /\ \E c \in DOMAIN callPc : StartCamera(c)
    /\ UNCHANGED <<stream, tracksEnabled, srcObject, videoWidth,
                   metadataPending, metadataOwner, uiState>>
    /\ UNCHANGED <<timerVars, passVars, imageVars, hidden, now, lastTick>>
    /\ UNCHANGED <<detectVars, rectifyVars, appVars, stageVars>>

\* the streams the browser can hand out: MaxStreams, and at least one for
\* each startCamera call there is room for
StreamPool(calls) ==
    1..(IF Cardinality(calls) > MaxStreams THEN Cardinality(calls) ELSE MaxStreams)

\* getUserMedia resolves for call c: lines 57-62.  The video loads the new
\* stream, so it has no size until loadedmetadata; a call that was waiting
\* on video.onloadedmetadata loses the handler and never resumes.
GetUserMediaResolves(c) ==
    /\ callPc[c] = "getUserMedia"
    /\ \E s \in {FreshId(StreamPool(DOMAIN callPc), liveStreams)} :
           /\ s # 0
           /\ stream' = s
           /\ srcObject' = s
           /\ liveStreams' = liveStreams \cup {s}
    /\ tracksEnabled' = TRUE
    /\ videoWidth' = 0
    /\ metadataPending' = TRUE
    /\ metadataOwner' = c
    /\ callPc' = [k \in DOMAIN callPc |->
                     IF k = c THEN "metadata"
                     ELSE IF callPc[k] = "metadata" THEN "idle" ELSE callPc[k]]
    /\ UNCHANGED <<facingMode, uiState>>
    /\ UNCHANGED <<timerVars, passVars, imageVars, hidden, now, lastTick>>
    /\ UNCHANGED <<detectVars, rectifyVars, appVars, stageVars>>

\* getUserMedia rejects for call c: the catch block (lines 72-91)
GetUserMediaRejects(c) ==
    /\ callPc[c] = "getUserMedia"
    /\ callPc' = [callPc EXCEPT ![c] = "idle"]
    /\ UNCHANGED <<stream, liveStreams, tracksEnabled, facingMode, srcObject,
                   videoWidth, metadataPending, metadataOwner, uiState>>
    /\ UNCHANGED <<timerVars, passVars, imageVars, hidden, now, lastTick>>
    /\ UNCHANGED <<detectVars, rectifyVars, appVars, stageVars>>

\* a faulty startDocumentDetection that sets a timer without clearing the old one
StartDocumentDetectionNoClear ==
    \E t \in {FreshId(TimerIds, activeTimers)} :
        /\ t # 0
        /\ activeTimers' = activeTimers \cup {t}
        /\ detectionInterval' = t

\* startDocumentDetection (lines 94-107): clear the old timer, set a new one
StartDocumentDetection ==
    \E t \in {FreshId(TimerIds, activeTimers \ {detectionInterval})} :
        /\ t # 0
        /\ activeTimers' = (activeTimers \ {detectionInterval}) \cup {t}
        /\ detectionInterval' = t

\* the video fires loadedmetadata; the waiting call resumes at lines 64-70
LoadedMetadata ==
    /\ metadataPending
    /\ srcObject \in liveStreams
    /\ metadataPending' = FALSE
    /\ videoWidth' = VideoWidth
    /\ IF metadataOwner # 0
       THEN /\ callPc' = [callPc EXCEPT ![metadataOwner] = "idle"]
            /\ metadataOwner' = 0
            /\ uiState' = "camera-started"
            /\ StartDocumentDetection
       ELSE UNCHANGED <<callPc, metadataOwner, uiState, timerVars>>
    /\ UNCHANGED <<stream, liveStreams, tracksEnabled, facingMode, srcObject>>
    /\ UNCHANGED <<passVars, imageVars, hidden, now, lastTick>>
    /\ UNCHANGED <<detectVars, rectifyVars, appVars, stageVars>>

\* detectDocumentInRealTime up to the drawn frame (lines 110-118), when its
\* test lets it start
PassBegin(frame) ==
    /\ isDetecting' = TRUE
    /\ canvasScene' = frame
    /\ passes' = Append(passes, [pc |-> "drawn", found |-> NoCorners])
    /\ UNCHANGED <<lastDetectedCorners, latestCompleted, overwritten>>

\* the callback of interval timer t (lines 102-106)
Tick(t) ==
    /\ t \in activeTimers
    /\ Len(passes) < MaxPasses
    /\ IF TimerCalls(isDetecting) /\ PassMayStart(isDetecting, videoWidth)
       THEN /\ \E frame \in 1..Len(Scenes) : PassBegin(frame)
            /\ lastTick' = "started"
       ELSE /\ UNCHANGED passVars
            /\ lastTick' = IF isDetecting THEN "skipped" ELSE lastTick
    /\ UNCHANGED <<cameraVars, timerVars, imageVars, hidden, now>>
    /\ UNCHANGED <<detectVars, rectifyVars, appVars, stageVars>>

\* a call of scanner.detectDocumentInRealTime() that is not the timer's
DirectCall ==
    /\ Len(passes) < MaxPasses
    /\ IF PassMayStart(isDetecting, videoWidth)
       THEN /\ \E frame \in 1..Len(Scenes) : PassBegin(frame)
            /\ lastTick' = "started"
       ELSE /\ UNCHANGED passVars
            /\ lastTick' = IF isDetecting THEN "skipped" ELSE lastTick
    /\ UNCHANGED <<cameraVars, timerVars, imageVars, hidden, now>>
    /\ UNCHANGED <<detectVars, rectifyVars, appVars, stageVars>>

\* line 121 of pass i: detectDocumentEdges on the frame that is on the canvas
PassDetect(i) ==
    /\ i \in DOMAIN passes
    /\ passes[i].pc = "drawn"
    /\ canvasScene # 0
    /\ passes' = [passes EXCEPT ![i] = [pc |-> "detected",
                                        found |-> SceneCorners[canvasScene]]]
    /\ UNCHANGED <<isDetecting, lastDetectedCorners, canvasScene, latestCompleted,
                   overwritten>>
    /\ UNCHANGED <<cameraVars, timerVars, imageVars, hidden, now, lastTick>>
    /\ UNCHANGED <<detectVars, rectifyVars, appVars, stageVars>>

\* a faulty pass whose throw leaves the method without the finally block
PassThrowsNoFinally(i) ==
    /\ i \in DOMAIN passes
    /\ passes[i].pc = "drawn"
    /\ canvasScene = 0
    /\ passes' = SubSeq(passes, 1, i - 1) \o SubSeq(passes, i + 1, Len(passes))
    /\ lastTick' = "none"
    /\ UNCHANGED <<isDetecting, lastDetectedCorners, canvasScene, latestCompleted,
                   overwritten>>
    /\ UNCHANGED <<cameraVars, timerVars, imageVars, hidden, now>>
    /\ UNCHANGED <<detectVars, rectifyVars, appVars, stageVars>>

\* line 121 of pass i on an empty canvas: getImageData throws, and the pass
\* ends in catch and finally (lines 128-132)
PassThrows(i) ==
    /\ i \in DOMAIN passes
    /\ passes[i].pc = "drawn"
    /\ canvasScene = 0
    /\ passes' = SubSeq(passes, 1, i - 1) \o SubSeq(passes, i + 1, Len(passes))
    /\ isDetecting' = FALSE
    /\ lastTick' = "none"
    /\ UNCHANGED <<lastDetectedCorners, canvasScene, latestCompleted, overwritten>>
    /\ UNCHANGED <<cameraVars, timerVars, imageVars, hidden, now>>
    /\ UNCHANGED <<detectVars, rectifyVars, appVars, stageVars>>

\* lines 124-132 of pass i: overlay, store of the result, finally
PassStore(i) ==
    /\ i \in DOMAIN passes
    /\ passes[i].pc = "detected"
    /\ lastDetectedCorners' = StoreResult(lastDetectedCorners, passes[i].found)
    /\ latestCompleted' = passes[i].found
    /\ overwritten' = (lastDetectedCorners # NoCorners /\ passes[i].found = NoCorners)
    /\ isDetecting' = FALSE
    /\ passes' = SubSeq(passes, 1, i - 1) \o SubSeq(passes, i + 1, Len(passes))
    /\ lastTick' = "none"
    /\ UNCHANGED canvasScene
    /\ UNCHANGED <<cameraVars, timerVars, imageVars, hidden, now>>
    /\ UNCHANGED <<detectVars, rectifyVars, appVars, stageVars>>

\* a faulty captureDocument that empties lastDetectedCorners once it has used it
CaptureConsumes(frame) ==
    /\ uiState = "camera-started"
    /\ Len(capturedImages) < MaxImages
    /\ IF videoWidth = 0
       THEN /\ canvasScene' = 0
            /\ capturedImages' = capturedImages
            /\ lastCapture' = [outcome |-> "error", path |-> "none",
                               used |-> NoCorners, latest |-> NoCorners]
       ELSE /\ canvasScene' = frame
            /\ capturedImages' =
                   Append(capturedImages,
                          [id |-> now,
                           hasDetection |-> lastDetectedCorners # NoCorners])
            /\ lastCapture' = [outcome |-> "appended",
                               path |-> IF lastDetectedCorners # NoCorners
                                        THEN "perspective" ELSE "smartCrop",
                               used |-> lastDetectedCorners,
                               latest |-> latestCompleted]
    /\ lastDetectedCorners' = NoCorners
    /\ UNCHANGED <<isDetecting, passes, latestCompleted, overwritten>>
    /\ UNCHANGED <<cameraVars, timerVars, hidden, now, lastTick>>
    /\ UNCHANGED <<detectVars, rectifyVars, appVars, stageVars>>

\* click on captureBtn: captureDocument (lines 429-465).  On a video without
\* a size the canvas is empty and both cropAndCorrectDocument (getImageData)
\* and smartCrop (drawImage of an empty canvas) throw.
Capture(frame) ==
    /\ uiState = "camera-started"
    /\ Len(capturedImages) < MaxImages
    /\ IF videoWidth = 0
       THEN /\ canvasScene' = 0
            /\ capturedImages' = capturedImages
            /\ lastCapture' = [outcome |-> "error", path |-> "none",
                               used |-> NoCorners, latest |-> NoCorners]
       ELSE /\ canvasScene' = frame
            /\ capturedImages' =
                   Append(capturedImages,
                          [id |-> now,
                           hasDetection |-> lastDetectedCorners # NoCorners])
            /\ lastCapture' = [outcome |-> "appended",
                               path |-> IF lastDetectedCorners # NoCorners
                                        THEN "perspective" ELSE "smartCrop",
                               used |-> lastDetectedCorners,
                               latest |-> latestCompleted]
    /\ UNCHANGED <<isDetecting, lastDetectedCorners, passes, latestCompleted,
                   overwritten>>
    /\ UNCHANGED <<cameraVars, timerVars, hidden, now, lastTick>>
    /\ UNCHANGED <<detectVars, rectifyVars, appVars, stageVars>>

\* click on stopBtn: stopCamera (lines 595-609)
StopCamera ==
    /\ uiState = "camera-started"
    /\ liveStreams' = IF stream # 0 THEN liveStreams \ {stream} ELSE liveStreams
    /\ stream' = 0
    /\ tracksEnabled' = TRUE
    /\ activeTimers' = activeTimers \ {detectionInterval}
    /\ detectionInterval' = 0
    /\ uiState' = "camera-stopped"
    /\ UNCHANGED <<facingMode, srcObject, videoWidth,
                   metadataPending, metadataOwner, callPc>>
    /\ UNCHANGED <<passVars, imageVars, hidden, now, lastTick>>
    /\ UNCHANGED <<detectVars, rectifyVars, appVars, stageVars>>

\* visibilitychange to hidden (lines 747-752)
PageHidden ==
    /\ ~hidden
    /\ hidden' = TRUE
    /\ IF stream # 0
       THEN /\ tracksEnabled' = FALSE
            /\ activeTimers' = activeTimers \ {detectionInterval}
       ELSE UNCHANGED <<tracksEnabled, activeTimers>>
    /\ UNCHANGED <<stream, liveStreams, facingMode, srcObject, videoWidth,
                   metadataPending, metadataOwner, callPc, uiState,
                   detectionInterval>>
    /\ UNCHANGED <<passVars, imageVars, now, lastTick>>
    /\ UNCHANGED <<detectVars, rectifyVars, appVars, stageVars>>

\* visibilitychange to visible (lines 753-756)
PageVisible ==
    /\ hidden
    /\ hidden' = FALSE
    /\ IF stream # 0
       THEN /\ tracksEnabled' = TRUE
            /\ StartDocumentDetection
       ELSE UNCHANGED <<tracksEnabled, timerVars>>
    /\ UNCHANGED <<stream, liveStreams, facingMode, srcObject, videoWidth,
                   metadataPending, metadataOwner, callPc, uiState>>
    /\ UNCHANGED <<passVars, imageVars, now, lastTick>>
    /\ UNCHANGED <<detectVars, rectifyVars, appVars, stageVars>>

\* click on the delete button of an image: deleteImage (lines 642-646)
DeleteImage(id) ==
    /\ \E k \in DOMAIN capturedImages : capturedImages[k].id = id
    /\ capturedImages' = WithoutId(capturedImages, id)
    /\ UNCHANGED lastCapture
    /\ UNCHANGED <<cameraVars, timerVars, passVars, hidden, now, lastTick>>
    /\ UNCHANGED <<detectVars, rectifyVars, appVars, stageVars>>

\* click on clearBtn: clearAll (lines 648-656), the confirm dialog answered
ClearAll(confirmed) ==
    /\ Len(capturedImages) # 0
    /\ capturedImages' = IF confirmed THEN <<>> ELSE capturedImages
    /\ UNCHANGED lastCapture
    /\ UNCHANGED <<cameraVars, timerVars, passVars, hidden, now, lastTick>>
    /\ UNCHANGED <<detectVars, rectifyVars, appVars, stageVars>>

\* a millisecond passes
AdvanceClock ==
    /\ now < MaxNow
    /\ now' = now + 1
    /\ UNCHANGED <<cameraVars, timerVars, passVars, imageVars, hidden, lastTick>>
    /\ UNCHANGED <<detectVars, rectifyVars, appVars, stageVars>>

Next ==
    \/ ClickStart
    \/ ClickSwitch
    \/ \E c \in Calls : GetUserMediaResolves(c)
    \/ \E c \in Calls : GetUserMediaRejects(c)
    \/ LoadedMetadata
    \/ \E t \in TimerIds : Tick(t)
    \/ DirectCall
    \/ \E i \in 1..MaxPasses : PassDetect(i)
    \/ \E i \in 1..MaxPasses : PassThrows(i)
    \/ \E i \in 1..MaxPasses : PassStore(i)
    \/ \E frame \in 1..Len(Scenes) : Capture(frame)
    \/ StopCamera
    \/ PageHidden
    \/ PageVisible
    \/ \E id \in 0..MaxNow : DeleteImage(id)
    \/ \E confirmed \in BOOLEAN : ClearAll(confirmed)
    \/ AdvanceClock

Spec == Init /\ [][Next]_vars

(***************************************************************************)
(* The rectifier of SmartDocumentScanner: cropAndCorrectDocument with      *)
(* applyPerspectiveCorrection row by row, and smartCrop.  The source       *)
(* canvas holds a frame of VideoWidth x VideoWidth pixels.                 *)
(***************************************************************************)
RectifyInit == DetectIdle /\ ScannerStart /\ RectifyStart /\ AppStart /\ StagesIdle

HeightNum == OutputHeightNum(TargetWidth)

\* captureDocument chooses the path (lines 440-448)
RectifyBegin(found) ==
    /\ rPc = "idle"
    /\ rCorners' = found
    /\ rPath' = IF found # NoCorners THEN "perspective" ELSE "smartCrop"
    /\ rPc' = "canvas"
    /\ UNCHANGED <<outCanvas, destRows, loopY, rowsStored, rowsDropped>>
    /\ UNCHANGED <<detectVars, scannerVars, appVars, stageVars>>

\* the output canvas of either path (lines 469-477, 554-558)
CreateOutputCanvas ==
    /\ rPc = "canvas"
    /\ outCanvas' = [w |-> TargetWidth, h |-> Truncated(HeightNum, AspectWidth)]
    /\ rPc' = IF rPath = "perspective" THEN "prepare" ELSE "draw"
    /\ UNCHANGED <<rPath, rCorners, destRows, loopY, rowsStored, rowsDropped>>
    /\ UNCHANGED <<detectVars, scannerVars, appVars, stageVars>>

\* applyPerspectiveCorrection up to its loop (lines 486-490)
PrepareCorrection ==
    /\ rPc = "prepare"
    /\ destRows' = Truncated(HeightNum, AspectWidth)
    /\ rCorners' = SortCornersForPerspective(rCorners)
    /\ loopY' = 0
    /\ rPc' = "loop"
    /\ UNCHANGED <<rPath, outCanvas, rowsStored, rowsDropped>>
    /\ UNCHANGED <<detectVars, scannerVars, appVars, stageVars>>

\* one row of the destination loop (lines 492-524), seen at its first pixel
CorrectRow ==
    /\ rPc = "loop"
    /\ RowInLoop(loopY, HeightNum, AspectWidth)
    /\ IF InsideSource(SourceOfRow(rCorners, loopY, HeightNum), VideoWidth, VideoWidth)
       THEN IF StoreLands((loopY * TargetWidth) * 4, TargetWidth * destRows * 4)
            THEN rowsStored' = rowsStored + 1 /\ UNCHANGED rowsDropped
            ELSE rowsDropped' = rowsDropped + 1 /\ UNCHANGED rowsStored
       ELSE UNCHANGED <<rowsStored, rowsDropped>>
    /\ loopY' = loopY + 1
    /\ UNCHANGED <<rPc, rPath, rCorners, outCanvas, destRows>>
    /\ UNCHANGED <<detectVars, scannerVars, appVars, stageVars>>

\* the loop ends: putImageData, enhanceDocument, toDataURL (lines 526-529, 482)
FinishCorrection ==
    /\ rPc = "loop"
    /\ ~RowInLoop(loopY, HeightNum, AspectWidth)
    /\ rPc' = "done"
    /\ UNCHANGED <<rPath, rCorners, outCanvas, destRows, loopY, rowsStored, rowsDropped>>
    /\ UNCHANGED <<detectVars, scannerVars, appVars, stageVars>>

\* smartCrop draws the centre crop scaled to the output canvas (lines 560-569)
DrawCrop ==
    /\ rPc = "draw"
    /\ rPc' = "done"
    /\ UNCHANGED <<rPath, rCorners, outCanvas, destRows, loopY, rowsStored, rowsDropped>>
    /\ UNCHANGED <<detectVars, scannerVars, appVars, stageVars>>

RectifyNext ==
    \/ \E k \in 1..Len(Scenes) : RectifyBegin(SceneCorners[k])
    \/ CreateOutputCanvas
    \/ PrepareCorrection
    \/ CorrectRow
    \/ FinishCorrection
    \/ DrawCrop

RectifySpec == RectifyInit /\ [][RectifyNext]_vars

(***************************************************************************)
(* DocumentScanner (second class of src/smart-scanner.js).                 *)
(***************************************************************************)
AppInit == DetectIdle /\ ScannerStart /\ RectifyStart /\ AppStart /\ StagesIdle

\* click on startCamera: startCamera up to its await (lines 808-824)
AppClickStart ==
    /\ ~appControls
    /\ appRequests < MaxCalls
    /\ appRequests' = appRequests + 1
    /\ UNCHANGED <<appControls, appFacing, appVideo, appImages, currentFilter,
                   appPending, appNow, appLast>>
    /\ UNCHANGED <<detectVars, scannerVars, rectifyVars, stageVars>>

\* click on switchCamera (lines 845-848)
AppClickSwitch ==
    /\ appControls
    /\ appRequests < MaxCalls
    /\ appFacing' = OtherFacing(appFacing)
    /\ appRequests' = appRequests + 1
    /\ UNCHANGED <<appControls, appVideo, appImages, currentFilter,
                   appPending, appNow, appLast>>
    /\ UNCHANGED <<detectVars, scannerVars, rectifyVars, stageVars>>

\* getUserMedia resolves: the stream is given to the video and the controls
\* are shown (lines 826-835); the video has no size until it has loaded
AppCameraGranted ==
    /\ appRequests > 0
    /\ appRequests' = appRequests - 1
    /\ appVideo' = "loading"
    /\ appControls' = TRUE
    /\ UNCHANGED <<appFacing, appImages, currentFilter, appPending, appNow, appLast>>
    /\ UNCHANGED <<detectVars, scannerVars, rectifyVars, stageVars>>

\* getUserMedia rejects (lines 837-839)
AppCameraDenied ==
    /\ appRequests > 0
    /\ appRequests' = appRequests - 1
    /\ UNCHANGED <<appControls, appFacing, appVideo, appImages, currentFilter,
                   appPending, appNow, appLast>>
    /\ UNCHANGED <<detectVars, scannerVars, rectifyVars, stageVars>>

\* the video has loaded the stream and shows frames
AppVideoLoaded ==
    /\ appVideo = "loading"
    /\ appVideo' = "playing"
    /\ UNCHANGED <<appControls, appRequests, appFacing, appImages, currentFilter,
                   appPending, appNow, appLast>>
    /\ UNCHANGED <<detectVars, scannerVars, rectifyVars, stageVars>>

\* click on capture: captureImage up to its await of applyFilterToImage
\* (lines 850-881), or to its catch (lines 894-896) when detection throws.
\* On a video without a size getImageData throws in detectDocumentEdges.
AppCapture(frame) ==
    /\ appControls
    /\ Len(appImages) + Len(appPending) < MaxAppImages
    /\ IF appVideo # "playing" \/ AppDetection[frame].threw
       THEN /\ appLast' = [outcome |-> "error", path |-> "none", corners |-> NoCorners,
                            frame |-> IF appVideo = "playing" THEN frame ELSE 0]
            /\ UNCHANGED appPending
       ELSE \E found \in {AppDetection[frame].rect} :
               \E job \in {[path |-> IF found # NoCorners
                                       THEN "perspective" ELSE "smartCrop",
                            corners |-> found, frame |-> frame]} :
                   /\ appPending' = Append(appPending, job)
                   /\ appLast' = [outcome |-> "pending", path |-> job.path,
                                  corners |-> found, frame |-> frame]
    /\ UNCHANGED <<appControls, appRequests, appFacing, appVideo, appImages,
                   currentFilter, appNow>>
    /\ UNCHANGED <<detectVars, scannerVars, rectifyVars, stageVars>>

\* img.onload of pending capture i: the filter is applied and captureImage
\* resumes to push the image (lines 881-892)
AppFilterLoaded(i) ==
    /\ i \in DOMAIN appPending
    /\ appImages' = Append(appImages, [id |-> appNow, filter |-> currentFilter,
                                       corners |-> appPending[i].corners])
    /\ appLast' = [outcome |-> "appended", path |-> appPending[i].path,
                   corners |-> appPending[i].corners, frame |-> appPending[i].frame]
    /\ appPending' = SubSeq(appPending, 1, i - 1)
                        \o SubSeq(appPending, i + 1, Len(appPending))
    /\ UNCHANGED <<appControls, appRequests, appFacing, appVideo, currentFilter, appNow>>
    /\ UNCHANGED <<detectVars, scannerVars, rectifyVars, stageVars>>

\* click on a filter button: setFilter (lines 962-970)
AppSetFilter(filter) ==
    /\ appControls
    /\ currentFilter' = filter
    /\ UNCHANGED <<appControls, appRequests, appFacing, appVideo, appImages,
                   appPending, appNow, appLast>>
    /\ UNCHANGED <<detectVars, scannerVars, rectifyVars, stageVars>>

\* click on the delete button of a page: deleteImage (lines 1001-1005)
AppDeleteImage(id) ==
    /\ \E k \in DOMAIN appImages : appImages[k].id = id
    /\ appImages' = WithoutId(appImages, id)
    /\ UNCHANGED <<appControls, appRequests, appFacing, appVideo, currentFilter,
                   appPending, appNow, appLast>>
    /\ UNCHANGED <<detectVars, scannerVars, rectifyVars, stageVars>>

\* click on clearAll (lines 1007-1013), the confirm dialog answered
AppClearAll(confirmed) ==
    /\ appImages' = IF confirmed THEN <<>> ELSE appImages
    /\ UNCHANGED <<appControls, appRequests, appFacing, appVideo, currentFilter,
                   appPending, appNow, appLast>>
    /\ UNCHANGED <<detectVars, scannerVars, rectifyVars, stageVars>>

\* a millisecond passes
AppAdvanceClock ==
    /\ appNow < MaxNow
    /\ appNow' = appNow + 1
    /\ UNCHANGED <<appControls, appRequests, appFacing, appVideo, appImages,
                   currentFilter, appPending, appLast>>
    /\ UNCHANGED <<detectVars, scannerVars, rectifyVars, stageVars>>

AppNext ==
    \/ AppClickStart
    \/ AppClickSwitch
    \/ AppCameraGranted
    \/ AppCameraDenied
    \/ AppVideoLoaded
    \/ \E frame \in 1..Len(AppFrames) : AppCapture(frame)
    \/ \E i \in 1..MaxAppImages : AppFilterLoaded(i)
    \/ \E filter \in Filters : AppSetFilter(filter)
    \/ \E id \in 0..MaxNow : AppDeleteImage(id)
    \/ \E confirmed \in BOOLEAN : AppClearAll(confirmed)
    \/ AppAdvanceClock

AppSpec == AppInit /\ [][AppNext]_vars

(***************************************************************************)
(* Properties of the scanner (checked under Spec).                         *)
(***************************************************************************)
\* C1: detection passes never overlap: at most one pass is in flight, and a
\* timer tick or a direct call of detectDocumentInRealTime made while
\* isDetecting is true starts no pass and changes no state of the scanner.
C1_PassesNeverOverlap ==
    /\ [](Len(passes) <= 1 /\ (isDetecting <=> Len(passes) = 1))
    /\ [][(isDetecting /\ ((\E t \in TimerIds : Tick(t)) \/ DirectCall))
             => UNCHANGED scannerCore]_vars

\* a trigger fired while a pass was in flight, and was skipped
C1_Witness ==
    /\ isDetecting
    /\ Len(passes) = 1
    /\ lastTick = "skipped"

\* C3: latest wins: lastDetectedCorners is the result of the most recently
\* completed pass, whether a quadrilateral or none, and that is what a
\* capture call uses.
C3_LatestWins ==
    /\ lastDetectedCorners = latestCompleted
    /\ lastCapture.outcome = "appended" =>
          /\ lastCapture.used = lastCapture.latest
          /\ (lastCapture.path = "perspective") <=> (lastCapture.latest # NoCorners)

\* a pass that found nothing has replaced a quadrilateral by none, and the
\* capture that followed used none
C3_Witness ==
    /\ overwritten
    /\ lastCapture.outcome = "appended"
    /\ lastCapture.path = "smartCrop"
    /\ lastCapture.used = NoCorners
    /\ lastDetectedCorners = NoCorners

(***************************************************************************)
(* Property of DocumentScanner.captureImage (checked under AppSpec).       *)
(***************************************************************************)
\* C2: capture always succeeds: a capture call never ends in the error
\* outcome, and the image it appends comes from the perspective path exactly
\* when a quadrilateral was detected, from the centre crop otherwise.
C2_CaptureAlwaysSucceeds ==
    /\ appLast.outcome # "error"
    /\ appLast.outcome \in {"pending", "appended"} =>
          ((appLast.path = "perspective") <=> (appLast.corners # NoCorners))

(***************************************************************************)
(* Property of the rectifier (checked under RectifySpec).                  *)
(***************************************************************************)
\* C10: both paths give an output of TargetWidth columns and the rows of
\* TargetWidth / (210 / 297), and the destination loop stores into the rows
\* of that buffer only, none beyond it.
C10_OutputBufferExact ==
    /\ rPc \in {"prepare", "loop", "draw", "done"} =>
          outCanvas = [w |-> TargetWidth, h |-> Truncated(HeightNum, AspectWidth)]
    /\ rPc \in {"loop", "done"} /\ rPath = "perspective" => destRows = outCanvas.h
    /\ rowsDropped = 0

(***************************************************************************)
(* Properties of the detection pass (checked under DetectSpec).            *)
(***************************************************************************)
Range(s) == {s[k] : k \in 1..Len(s)}

\* twice the shoelace area of a four-point polygon
QuadArea2(q) ==
    Abs(  (PX(q[1]) * PY(q[2]) - PX(q[2]) * PY(q[1]))
        + (PX(q[2]) * PY(q[3]) - PX(q[3]) * PY(q[2]))
        + (PX(q[3]) * PY(q[4]) - PX(q[4]) * PY(q[3]))
        + (PX(q[4]) * PY(q[1]) - PX(q[1]) * PY(q[4])))

\* the angle at b between the sides b-a and b-c is within 30 degrees of 90:
\* |cos| < 1/2, both sides of non-zero length
WithinThirtyOfRight(a, b, c) ==
    LET ux == PX(a) - PX(b)
        uy == PY(a) - PY(b)
        wx == PX(c) - PX(b)
        wy == PY(c) - PY(b)
    IN  /\ ux * ux + uy * uy > 0
        /\ wx * wx + wy * wy > 0
        /\ 4 * (ux * wx + uy * wy) * (ux * wx + uy * wy)
              < (ux * ux + uy * uy) * (wx * wx + wy * wy)

AnglesNearRight(q) ==
    /\ WithinThirtyOfRight(q[4], q[1], q[2])
    /\ WithinThirtyOfRight(q[1], q[2], q[3])
    /\ WithinThirtyOfRight(q[2], q[3], q[4])
    /\ WithinThirtyOfRight(q[3], q[4], q[1])

FrameArea == curFrame.w * curFrame.h

\* C4: every quadrilateral detect returns has four pairwise distinct corners,
\* a non-zero area strictly between 10% and 80% of the image area, and all
\* four angles within 30 degrees of 90.
C4_ReturnedQuadIsValid ==
    (curStage = "done" /\ curResult # NoCorners) =>
        /\ Len(curResult) = 4
        /\ Cardinality(Range(curResult)) = 4
        /\ QuadArea2(curResult) > 0
        /\ 10 * QuadArea2(curResult) > 2 * FrameArea
        /\ 10 * QuadArea2(curResult) < 16 * FrameArea
        /\ AnglesNearRight(curResult)

\* a pass over a frame with two squares that returned a quadrilateral
C4_Witness ==
    /\ curStage = "done"
    /\ Len(curFrame.shapes) = 2
    /\ curResult # NoCorners
    /\ curResult \in Range(curCandidates)

\* C5: detect returns a surviving quadrilateral of the largest area, and none
\* if and only if no quadrilateral survived validation.
C5_LargestSurvivorSelected ==
    curStage = "done" =>
        /\ (curResult = NoCorners) <=> (curRectangles = <<>>)
        /\ curResult # NoCorners =>
              /\ curResult \in Range(curRectangles)
              /\ \A q \in Range(curRectangles) : QuadArea2(curResult) >= QuadArea2(q)
        /\ curResult = DetectDocumentEdges(ImageData(curFrame), curFrame.w, curFrame.h)

\* two survivors, the larger one discovered second and returned
C5_Witness ==
    /\ curStage = "done"
    /\ Len(curRectangles) = 2
    /\ curCandidates[1] \in Range(curRectangles)
    /\ QuadArea2(curCandidates[1]) < QuadArea2(curCandidates[2])
    /\ curResult = curCandidates[2]

\* the frame holds one centred white square on black covering 10% to 80%
IsCleanCentredSquare(f) ==
    /\ f \in CentredFrames
    /\ LET side == f.shapes[1].x1 - f.shapes[1].x0
       IN  10 * side * side >= f.w * f.h /\ 10 * side * side <= 8 * f.w * f.h

\* C6: for a clean, centred, axis-aligned white rectangle on black covering
\* 10% to 80% of the image, detect returns a quadrilateral (not none) with all
\* four angles within 30 degrees of 90.
C6_CleanRectangleDetected ==
    (curStage = "done" /\ IsCleanCentredSquare(curFrame)) =>
        curResult # NoCorners /\ AnglesNearRight(curResult)

\* C7: for every frame of a single constant colour detect returns none.
C7_ConstantFrameNoDetection ==
    (curStage = "done" /\ IsConstantFrame(curFrame)) => curResult = NoCorners

\* a constant frame whose edge mask is not empty, with nothing detected
C7_Witness ==
    /\ curStage = "done"
    /\ IsConstantFrame(curFrame)
    /\ \E i \in DOMAIN curEdges : curEdges[i] > 0
    /\ curResult = NoCorners

\* C8: for every frame of a single constant colour the grayscale buffer is
\* constant, every byte the luma of that colour, and the edge mask is zero at
\* every pixel.
C8_ConstantFrameNoEdges ==
    IsConstantFrame(curFrame) =>
        /\ curStage # "frame" =>
              \A i \in DOMAIN curGray :
                  curGray[i] = (299 * curFrame.bg[1] + 587 * curFrame.bg[2]
                                   + 114 * curFrame.bg[3] + 500) \div 1000
        /\ curStage \in {"edges", "done"} => \A i \in DOMAIN curEdges : curEdges[i] = 0

\* C9: the area bound is the closed interval [10%, 80%]: a fitted candidate
\* with valid angles whose area is at least 10% and at most 80% of the image
\* area is accepted.
C9_ClosedAreaInterval ==
    \A c \in Range(curCandidates) :
        ( /\ c # NoCorners
          /\ Len(c) = 4
          /\ AnglesNearRight(c)
          /\ 10 * QuadArea2(c) >= 2 * FrameArea
          /\ 10 * QuadArea2(c) <= 16 * FrameArea )
        => c \in Range(curRectangles)

(***************************************************************************)
(* sortCornersForPerspective on its own: the corners given are the valid   *)
(* quadrilaterals of four distinct pixels of a small frame, in every       *)
(* order.                                                                  *)
(***************************************************************************)
MaxCoord == 3       \* the largest pixel coordinate of a corner given

GridPoints == {Pt(x, y) : x \in 0..MaxCoord, y \in 0..MaxCoord}

\* four distinct corners that findDocumentRectangles accepts in a frame of
\* (MaxCoord + 1) x (MaxCoord + 1) pixels
ValidQuads ==
    {q \in [1..4 -> GridPoints] :
        /\ Cardinality({q[1], q[2], q[3], q[4]}) = 4
        /\ AcceptsCandidate(q, MaxCoord + 1, MaxCoord + 1)}

SortInit ==
    /\ DetectIdle /\ ScannerStart /\ RectifyStart /\ AppStart
    /\ PixelIdle /\ RawIdle /\ ToneIdle /\ CropIdle /\ HullIdle
    /\ sortIn \in ValidQuads
    /\ sortOut = NoCorners
    /\ sortAgain = NoCorners

\* applyPerspectiveCorrection line 490
SortCorners ==
    /\ sortIn # NoCorners
    /\ sortOut = NoCorners
    /\ sortOut' = SortCornersForPerspective(sortIn)
    /\ UNCHANGED <<sortIn, sortAgain>>
    /\ UNCHANGED <<detectVars, scannerVars, rectifyVars, appVars, pixelVars, rawVars, toneVars,
                   cropVars, hullVars>>

\* the same call on the list returned
SortSorted ==
    /\ sortOut # NoCorners
    /\ sortAgain = NoCorners
    /\ sortAgain' = SortCornersForPerspective(sortOut)
    /\ UNCHANGED <<sortIn, sortOut>>
    /\ UNCHANGED <<detectVars, scannerVars, rectifyVars, appVars, pixelVars, rawVars, toneVars,
                   cropVars, hullVars>>

SortNext == SortCorners \/ SortSorted

SortSpec == SortInit /\ [][SortNext]_vars

(***************************************************************************)
(* Properties of the stages.                                               *)
(***************************************************************************)
\* C11: the list sortCornersForPerspective returns is top-left = min(x+y),
\* top-right = max(x-y), bottom-right = max(x+y), bottom-left = min(x-y) of
\* the corners given and is a permutation of them (for four distinct valid
\* corners: the same four points), and sorting the sorted list again
\* returns it unchanged.
C11_ReorderingIsPermutation ==
    /\ sortOut # NoCorners =>
          /\ \A k \in 1..4 :
                /\ PX(sortOut[1]) + PY(sortOut[1]) <= PX(sortIn[k]) + PY(sortIn[k])
                /\ PX(sortOut[2]) - PY(sortOut[2]) >= PX(sortIn[k]) - PY(sortIn[k])
                /\ PX(sortOut[3]) + PY(sortOut[3]) >= PX(sortIn[k]) + PY(sortIn[k])
                /\ PX(sortOut[4]) - PY(sortOut[4]) <= PX(sortIn[k]) - PY(sortIn[k])
          /\ Len(sortOut) = 4
          /\ {sortOut[k] : k \in 1..4} = {sortIn[k] : k \in 1..4}
    /\ sortAgain # NoCorners => sortAgain = sortOut

(***************************************************************************)
(* applyPerspectiveCorrection and enhanceDocument at one destination       *)
(* pixel.  u = x / destWidth and v = y / destHeight are kept as fractions: *)
(* v = y * 210 / (800 * 297), reduced.  The source canvas holds a small    *)
(* frame of three colours; the corners given lie inside it, outside it and *)
(* across its border.                                                      *)
(***************************************************************************)
PixelStride == 100  \* every PixelStride-th column and row is followed

ContrastNum == 13
ContrastDen == 10
Brightness == 15

RECURSIVE Gcd(_, _)
Gcd(a, b) == IF b = 0 THEN a ELSE Gcd(b, a % b)

\* v = y / destHeight as the fraction n / d, destHeight = heightNum / heightDen
RowFraction(y, heightNum, heightDen) ==
    LET g == Gcd(heightNum, heightDen)
    IN  [n |-> y * (heightDen \div g), d |-> heightNum \div g]

\* a faulty blend whose top-right term lacks the factor (1 - v)
BilinearTopRightUnweighted(tl, tr, br, bl, x, width, v) ==
    RoundHalfUp(  tl * (width - x) * (v.d - v.n) + tr * x * v.d
                + br * x * v.n + bl * (width - x) * v.n,
                width * v.d)

\* Math.round(tl (1-u)(1-v) + tr u (1-v) + br u v + bl (1-u) v), u = x / width
BilinearRound(tl, tr, br, bl, x, width, v) ==
    RoundHalfUp(  tl * (width - x) * (v.d - v.n) + tr * x * (v.d - v.n)
                + br * x * v.n + bl * (width - x) * v.n,
                width * v.d)

\* (sourceX, sourceY) of the destination pixel (x, y), lines 494-510
SourcePixel(corners, x, y, destWidth, heightNum, heightDen) ==
    LET v == RowFraction(y, heightNum, heightDen)
    IN  Pt(BilinearRound(PX(corners[1]), PX(corners[2]), PX(corners[3]),
                         PX(corners[4]), x, destWidth, v),
           BilinearRound(PY(corners[1]), PY(corners[2]), PY(corners[3]),
                         PY(corners[4]), x, destWidth, v))

\* sourceImageData.data[sourceIndex .. sourceIndex + 2]; a read beyond the
\* array is undefined, which a store turns into 0
ReadSource(data, pixels, sourceIndex) ==
    IF sourceIndex >= 0 /\ sourceIndex < pixels * 4 THEN data[sourceIndex \div 4]
    ELSE <<0, 0, 0>>

\* a faulty formula that takes 128 off and puts 127 back
EnhanceChannelOffCentre(value, contrastNum, contrastDen, brightness) ==
    ClampedStore(contrastNum * (value - 128) + (127 + brightness) * contrastDen,
                 contrastDen)

\* Math.min(255, Math.max(0, (value - 128) * contrast + 128 + brightness)),
\* stored in the Uint8ClampedArray; contrast = contrastNum / contrastDen
EnhanceChannel(value, contrastNum, contrastDen, brightness) ==
    ClampedStore(contrastNum * (value - 128) + (128 + brightness) * contrastDen,
                 contrastDen)

\* lines 582-584 on the pixel <<r, g, b, a>>: data[i + 3] is not written
EnhancePixelData(px, contrastNum, contrastDen, brightness) ==
    << EnhanceChannel(px[1], contrastNum, contrastDen, brightness),
       EnhanceChannel(px[2], contrastNum, contrastDen, brightness),
       EnhanceChannel(px[3], contrastNum, contrastDen, brightness),
       px[4] >>

SourceFrame ==
    [w |-> 6, h |-> 5, bg |-> <<10, 20, 30>>,
     shapes |-> <<Shape(1, 1, 4, 3, <<200, 100, 50>>), Shape(4, 3, 6, 5, White)>>]

SourceData == ImageData(SourceFrame)

Same(p) == <<p, p, p, p>>

PixelCorners ==
    { Same(Pt(2, 2)), Same(Pt(5, 4)), Same(Pt(6, 2)), Same(Pt(-1, 1)),
      <<Pt(1, 0), Pt(5, 1), Pt(4, 4), Pt(0, 3)>>,
      <<Pt(4, 4), Pt(0, 3), Pt(1, 0), Pt(5, 1)>>,
      <<Pt(-2, -1), Pt(8, 0), Pt(7, 6), Pt(0, 5)>> }

\* the rows the destination loop runs over: y < destHeight
LoopRows == {y \in 0..(Truncated(HeightNum, AspectWidth) + 1) :
                RowInLoop(y, HeightNum, AspectWidth)}

LastOf(S) == CHOOSE m \in S : \A k \in S : k <= m

PixelColumns ==
    {x \in 0..(TargetWidth - 1) : x % PixelStride = 0 \/ x = TargetWidth - 1}

\* the last y of the destination loop
LastLoopRow == LastOf(LoopRows)

PixelRows ==
    {y \in LoopRows : y % PixelStride = 0 \/ y >= LastLoopRow - 1}

\* destImageData.data.length
DestLength == TargetWidth * Truncated(HeightNum, AspectWidth) * 4

PixelInit ==
    /\ DetectIdle /\ ScannerStart /\ RectifyStart /\ AppStart
    /\ SortIdle /\ RawIdle /\ ToneIdle /\ CropIdle /\ HullIdle
    /\ pxPc = "given"
    /\ pxCorners \in PixelCorners
    /\ pxX \in PixelColumns
    /\ pxY \in PixelRows
    /\ pxSource = Pt(0, 0)
    /\ pxRead = -1
    /\ pxDest = <<>>
    /\ pxOut = <<>>

\* the body of the destination loop at (pxX, pxY), lines 494-522, on the
\* zero-filled destImageData
MapPixel ==
    /\ pxPc = "given"
    /\ LET corners == SortCornersForPerspective(pxCorners)
           p == SourcePixel(corners, pxX, pxY, TargetWidth, HeightNum, AspectWidth)
           sourceIndex == (PY(p) * SourceFrame.w + PX(p)) * 4
           destIndex == (pxY * TargetWidth + pxX) * 4
           lands == StoreLands(destIndex, DestLength)
       IN  /\ pxSource' = p
           /\ IF InsideSource(p, SourceFrame.w, SourceFrame.h)
              THEN /\ pxRead' = sourceIndex
                   /\ pxDest' = IF lands
                                THEN Append(ReadSource(SourceData,
                                                SourceFrame.w * SourceFrame.h,
                                                sourceIndex), 255)
                                ELSE <<>>
              ELSE /\ pxRead' = -1
                   /\ pxDest' = IF lands THEN <<0, 0, 0, 0>> ELSE <<>>
    /\ pxPc' = "mapped"
    /\ UNCHANGED <<pxCorners, pxX, pxY, pxOut>>
    /\ UNCHANGED <<detectVars, scannerVars, rectifyVars, appVars, sortVars, rawVars, toneVars,
                   cropVars, hullVars>>

\* enhanceDocument (line 529) at the same pixel
EnhancePixel ==
    /\ pxPc = "mapped"
    /\ pxOut' = IF pxDest = <<>> THEN <<>>
                ELSE EnhancePixelData(pxDest, ContrastNum, ContrastDen, Brightness)
    /\ pxPc' = "enhanced"
    /\ UNCHANGED <<pxCorners, pxX, pxY, pxSource, pxRead, pxDest>>
    /\ UNCHANGED <<detectVars, scannerVars, rectifyVars, appVars, sortVars, rawVars, toneVars,
                   cropVars, hullVars>>

PixelNext == MapPixel \/ EnhancePixel

PixelSpec == PixelInit /\ [][PixelNext]_vars

\* the pixel (x, y) of the source frame as destImageData receives it
CopiedFrom(p) == Append(PixelAt(SourceFrame, PY(p) * SourceFrame.w + PX(p)), 255)

IsInsideSourceFrame(p) ==
    /\ PX(p) \in 0..(SourceFrame.w - 1)
    /\ PY(p) \in 0..(SourceFrame.h - 1)

C13_WrittenIffInside ==
    /\ (pxPc \in {"mapped", "enhanced"} /\ pxDest # <<>>) =>
          IF IsInsideSourceFrame(pxSource)
          THEN /\ pxDest = CopiedFrom(pxSource)
               /\ pxRead = (PY(pxSource) * SourceFrame.w + PX(pxSource)) * 4
          ELSE /\ pxDest = <<0, 0, 0, 0>>
               /\ pxRead = -1
    /\ pxRead = -1 \/ (pxRead >= 0 /\ pxRead + 3 < SourceFrame.w * SourceFrame.h * 4)

C13_Witness ==
    /\ pxPc = "mapped"
    /\ pxCorners[1] = Pt(-2, -1)
    /\ pxCorners[3] = Pt(7, 6)
    /\ ~IsInsideSourceFrame(pxSource)
    /\ pxDest = <<0, 0, 0, 0>>

(***************************************************************************)
(* findDocumentRectangles on an edge mask given directly: the seed loop    *)
(* and traceContour on masks that sobelEdgeDetection need not produce, a   *)
(* mask with every pixel on among them.  The mask is MaskSide pixels wide  *)
(* and high, more than 1000 pixels, so that a contour can reach its cap.   *)
(***************************************************************************)
MaskSide == 40

MaskKinds ==
    {"on", "off", "rows2", "rows3", "rows4", "columns2", "columns3", "columns4",
     "grid", "diagonals", "blocks", "frame", "blob49", "blob50", "blob51"}

MaskPixelOn(kind, x, y, side) ==
    CASE kind = "on" -> TRUE
      [] kind = "off" -> FALSE
      [] kind = "rows2" -> y % 2 = 0
      [] kind = "rows3" -> y % 3 = 0
      [] kind = "rows4" -> y % 4 = 0
      [] kind = "columns2" -> x % 2 = 0
      [] kind = "columns3" -> x % 3 = 0
      [] kind = "columns4" -> x % 4 = 0
      [] kind = "grid" -> x % 5 = 0 \/ y % 5 = 0
      [] kind = "diagonals" -> (x + y) % 2 = 0
      [] kind = "blocks" -> ((x \div 8) + (y \div 8)) % 2 = 0
      [] kind = "frame" -> x \in {5, side - 6} \/ y \in {5, side - 6}
      [] kind = "blob49" -> x \in 10..16 /\ y \in 10..16
      [] kind = "blob50" -> (x \in 10..16 /\ y \in 10..16) \/ (x = 17 /\ y = 10)
      [] kind = "blob51" -> (x \in 10..16 /\ y \in 10..16) \/ (x = 17 /\ y \in 10..11)

EdgeMask(kind, side) ==
    Stored([i \in 0..(side * side - 1) |->
               IF MaskPixelOn(kind, i % side, i \div side, side) THEN 255 ELSE 0])

EdgeMasks == {EdgeMask(kind, MaskSide) : kind \in MaskKinds}

\* findDocumentRectangles is entered with an edge mask
TraceInit ==
    /\ curFrame = [w |-> MaskSide, h |-> MaskSide, bg |-> Black, shapes |-> <<>>]
    /\ curStage = "edges"
    /\ curEdges \in EdgeMasks
    /\ curGray = <<>>
    /\ curBlurred = <<>>
    /\ seedIndex = 1
    /\ curVisited = {}
    /\ curRectangles = <<>>
    /\ curContours = <<>>
    /\ curCandidates = <<>>
    /\ curFitted = <<>>
    /\ curResult = NoCorners
    /\ ScannerStart /\ RectifyStart /\ AppStart /\ StagesIdle

TraceNext == DoSeed \/ DoSelect

TraceSpec == TraceInit /\ [][TraceNext]_vars

\* the pixel indices of the k-th contour traced in this pass
ContourIndices(k) ==
    {PY(curContours[k][n]) * curFrame.w + PX(curContours[k][n]) :
        n \in 1..Len(curContours[k])}

\* the loop state in which the traceContour call at the next seed ends
NextTrace ==
    TraceContour(curEdges, curFrame.w, curFrame.h,
                 PX(Seeds[seedIndex]), PY(Seeds[seedIndex]), curVisited)

\* the steps the pass has still to take: the seeds left and the final sort
StepsLeft == (Len(Seeds) + 1 - seedIndex) + (IF curStage = "done" THEN 0 ELSE 1)

\* C14: within one pass no pixel is added twice to a contour or to two
\* contours, the pixels marked visited are exactly the pixels of the
\* contours and all of them are on; and the pass terminates on every edge
\* mask, the mask with every pixel on included: every traceContour call
\* ends, and every step of the seed loop takes the pass nearer to its end.
C14_EachPixelTracedOnce ==
    /\ [](/\ \A k \in 1..Len(curContours) :
                /\ Cardinality(ContourIndices(k)) = Len(curContours[k])
                /\ \A j \in 1..(k - 1) : ContourIndices(j) \cap ContourIndices(k) = {}
                /\ \A i \in ContourIndices(k) : curEdges[i] > 0
          /\ curVisited = UNION {ContourIndices(k) : k \in 1..Len(curContours)}
          /\ (curStage = "edges" /\ seedIndex <= Len(Seeds)) => ~TraceRunning(NextTrace)
          /\ StepsLeft >= 0
          /\ StepsLeft = 0 <=> curStage = "done")
    /\ [][StepsLeft' < StepsLeft]_vars

C14_Witness ==
    /\ curStage = "done"
    /\ \A i \in 0..(MaskSide * MaskSide - 1) : curEdges[i] = 255
    /\ Len(curContours) = 2
    /\ Len(curContours[1]) = MaxContourLength
    /\ Cardinality(curVisited) = MaskSide * MaskSide

(***************************************************************************)
(* Properties of DocumentScanner (checked under AppSpec).                  *)
(***************************************************************************)
\* C15: detection is total: on a well-formed frame detectDocumentEdges
\* returns four corners or none and never throws, whatever the number of
\* candidate corner points: a capture that had a frame on its canvas does
\* not end in the catch block, and the corners it used are four or none.
C15_DetectionIsTotal ==
    /\ appLast.frame # 0 => appLast.outcome # "error"
    /\ appLast.outcome \in {"pending", "appended"} =>
          (appLast.corners = NoCorners \/ Len(appLast.corners) = 4)

(***************************************************************************)
(* Properties of the smoother (checked under DetectSpec).                  *)
(***************************************************************************)
\* C17: the smoother writes the 3x3 kernel convolution of its input at every
\* interior pixel and leaves the one-pixel border ring equal to the input:
\* output[p] = input[p] wherever x = 0, x = width-1, y = 0 or y = height-1.
C17_SmootherKeepsBorder ==
    curBlurred # <<>> =>
        \A i \in 0..(curFrame.w * curFrame.h - 1) :
            IF InteriorPixel(i, curFrame.w, curFrame.h)
            THEN curBlurred[i] = ClampedStore(BlurSum(curGray, curFrame.w, i), 16)
            ELSE curBlurred[i] = curGray[i]

(***************************************************************************)
(* Properties of the tone enhancer (checked under PixelSpec).              *)
(***************************************************************************)
\* (in - 128) * 1.3 + 128 + 15 in tenths, clamped to [0, 255]
EnhancedTenths(in) ==
    LET t == ContrastNum * (in - 128) + (128 + Brightness) * ContrastDen
    IN  IF t < 0 THEN 0 ELSE IF t > 255 * ContrastDen THEN 255 * ContrastDen ELSE t

\* C18: the tone enhancer sets each of R, G and B of every pixel to
\* clamp(0, 255, (in - 128) * 1.3 + 128 + 15), stored as the nearest byte, so
\* every channel lies in 0..255, and after enhancement the alpha channel of
\* every pixel of the output is 255.
C18_EnhancedChannelsAndOpaque ==
    (pxPc = "enhanced" /\ pxOut # <<>>) =>
        /\ \A k \in 1..3 :
              /\ pxOut[k] \in 0..255
              /\ Abs(ContrastDen * pxOut[k] - EnhancedTenths(pxDest[k])) * 2 <= ContrastDen
        /\ pxOut[4] = 255

(***************************************************************************)
(* The first two stages on a buffer a caller hands in: an image object of  *)
(* any width, height and data length (convertToGrayscale lines 153-163,    *)
(* gaussianBlur lines 165-187).  data[i] is rawImage.data[i + 1].          *)
(***************************************************************************)
MaxRawSide == 3
MaxRawSpare == 5

RawSeeds == {9, 130}

RawBytes(seed, length) == [i \in 1..length |-> (seed + 37 * i) % 256]

RawImages ==
    {[width |-> w, height |-> h, data |-> RawBytes(seed, length)] :
        <<w, h, seed, length>> \in
            {q \in (1..MaxRawSide) \X (1..MaxRawSide) \X RawSeeds
                       \X (0..(4 * MaxRawSide * MaxRawSide + MaxRawSpare)) :
                q[4] <= 4 * q[1] * q[2] + MaxRawSpare}}

\* the values of i the loop of line 157 takes
GrayLoopIndices(data) == {i \in 0..(Len(data) - 1) : i % 4 = 0}

\* line 158: an operand at or beyond data.length is undefined, the sum is
\* NaN and the clamped array stores NaN as 0
GrayOf(data, i) ==
    IF i + 2 < Len(data)
    THEN ClampedStore(299 * data[i + 1] + 587 * data[i + 2] + 114 * data[i + 3], 1000)
    ELSE 0

\* lines 155-162: grayData has width * height zero bytes; a store at an index
\* at or beyond its length is ignored
ConvertImageToGrayscale(imageData) ==
    [k \in 0..(imageData.width * imageData.height - 1) |->
        IF 4 * k \in GrayLoopIndices(imageData.data)
        THEN GrayOf(imageData.data, 4 * k)
        ELSE 0]

GrayReadsOutside(data) ==
    {j \in UNION {{i, i + 1, i + 2} : i \in GrayLoopIndices(data)} : j >= Len(data)}

GrayStoresOutside(imageData) ==
    {i \div 4 : i \in {j \in GrayLoopIndices(imageData.data) :
                          j \div 4 >= imageData.width * imageData.height}}

WellFormed(imageData) ==
    Len(imageData.data) = imageData.width * imageData.height * 4

RawInit ==
    /\ DetectIdle /\ ScannerStart /\ RectifyStart /\ AppStart
    /\ SortIdle /\ PixelIdle /\ ToneIdle /\ CropIdle /\ HullIdle
    /\ rawPc = "given"
    /\ rawImage \in RawImages
    /\ rawGray = <<>>
    /\ rawBlurred = <<>>
    /\ rawOutcome = "none"
    /\ rawReadsOutside = {}
    /\ rawStoresOutside = {}

\* convertToGrayscale(rawImage): no statement of it throws
RawGrayscale ==
    /\ rawPc = "given"
    /\ rawGray' = ConvertImageToGrayscale(rawImage)
    /\ rawReadsOutside' = GrayReadsOutside(rawImage.data)
    /\ rawStoresOutside' = GrayStoresOutside(rawImage)
    /\ rawOutcome' = "returned"
    /\ rawPc' = "gray"
    /\ UNCHANGED <<rawImage, rawBlurred>>
    /\ UNCHANGED <<detectVars, scannerVars, rectifyVars, appVars, sortVars, pixelVars,
                   toneVars,
                   cropVars, hullVars>>

\* gaussianBlur(grayData, width, height)
RawBlur ==
    /\ rawPc = "gray"
    /\ rawBlurred' = GaussianBlur(rawGray, rawImage.width, rawImage.height)
    /\ rawPc' = "blurred"
    /\ UNCHANGED <<rawImage, rawGray, rawOutcome, rawReadsOutside, rawStoresOutside>>
    /\ UNCHANGED <<detectVars, scannerVars, rectifyVars, appVars, sortVars, pixelVars,
                   toneVars,
                   cropVars, hullVars>>

RawNext == RawGrayscale \/ RawBlur

RawSpec == RawInit /\ [][RawNext]_vars

ToneAlphas == {0, 255}

\* pixels <<r, g, b, a>> in which every byte value occurs as r
TonePixels == {<<v, (7 * v + 3) % 256, 255 - v, a>> : v \in 0..255, a \in ToneAlphas}

\* <<contrast as a fraction, brightness>>: the neutral settings and those of
\* lines 577-578
ToneSettings == {<<<<1, 1>>, 0>>, <<<<ContrastNum, ContrastDen>>, Brightness>>}

ToneInit ==
    /\ DetectIdle /\ ScannerStart /\ RectifyStart /\ AppStart
    /\ SortIdle /\ PixelIdle /\ RawIdle /\ CropIdle /\ HullIdle
    /\ tnPc = "given"
    /\ \E s \in ToneSettings : tnContrast = s[1] /\ tnBrightness = s[2]
    /\ tnIn \in TonePixels
    /\ tnOut = <<>>

EnhanceOnce ==
    /\ tnPc = "given"
    /\ tnOut' = EnhancePixelData(tnIn, tnContrast[1], tnContrast[2], tnBrightness)
    /\ tnPc' = "once"
    /\ UNCHANGED <<tnContrast, tnBrightness, tnIn>>
    /\ UNCHANGED <<detectVars, scannerVars, rectifyVars, appVars, sortVars, pixelVars,
                   rawVars,
                   cropVars, hullVars>>

EnhanceAgain ==
    /\ tnPc = "once"
    /\ tnOut' = EnhancePixelData(tnOut, tnContrast[1], tnContrast[2], tnBrightness)
    /\ tnPc' = "twice"
    /\ UNCHANGED <<tnContrast, tnBrightness, tnIn>>
    /\ UNCHANGED <<detectVars, scannerVars, rectifyVars, appVars, sortVars, pixelVars,
                   rawVars,
                   cropVars, hullVars>>

ToneNext == EnhanceOnce \/ EnhanceAgain

ToneSpec == ToneInit /\ [][ToneNext]_vars

C20_SingleWriter ==
    [][/\ lastDetectedCorners' # lastDetectedCorners =>
             \E i \in 1..MaxPasses :
                 PassStore(i) /\ lastDetectedCorners' = passes[i].found
       /\ (\/ \E frame \in 1..Len(Scenes) : Capture(frame)
           \/ StopCamera
           \/ ClickSwitch
           \/ \E i \in 1..MaxPasses : PassThrows(i)
           \/ lastTick' = "skipped")
             => lastDetectedCorners' = lastDetectedCorners]_vars

\* the corners a pass stored are still there after a capture used them and
\* the camera was stopped
C20_Witness ==
    /\ lastDetectedCorners # NoCorners
    /\ lastCapture.outcome = "appended"
    /\ lastCapture.used = lastDetectedCorners
    /\ uiState = "camera-stopped"
    /\ ~isDetecting

Uncollected ==
    {i \in 0..(curFrame.w * curFrame.h - 1) : curEdges[i] > 0}
        \ UNION {ContourIndices(k) : k \in 1..Len(curContours)}

SeedPixel == PY(Seeds[seedIndex]) * curFrame.w + PX(Seeds[seedIndex])

\* C22: every contour the flood fill returns has at most 1000 points; when
\* the cap is reached the fill stops, the on pixels it has not collected
\* stay unvisited, and a later seed of the same pass that falls on one of
\* them starts a contour with it.
C22_ContourCapped ==
    /\ \A k \in 1..Len(curContours) : Len(curContours[k]) <= 1000
    /\ Uncollected \cap curVisited = {}
    /\ (curStage = "edges" /\ seedIndex <= Len(Seeds) /\ SeedPixel \in Uncollected) =>
          /\ Len(NextTrace.contour) \in 1..1000
          /\ NextTrace.contour[1] = Seeds[seedIndex]
          /\ NextTrace.visited \cap Uncollected =
                {PY(p) * curFrame.w + PX(p) : p \in Range(NextTrace.contour)}

\* on the mask with every pixel on, one component, the first contour has
\* reached the cap and the next seed falls on a pixel that is left
C22_Witness ==
    /\ curStage = "edges"
    /\ seedIndex <= Len(Seeds)
    /\ Len(curContours) = 1
    /\ Len(curContours[1]) = 1000
    /\ SeedPixel \in Uncollected
    /\ \A i \in 0..(curFrame.w * curFrame.h - 1) : curEdges[i] > 0

(***************************************************************************)
(* smartCrop: the rectangle of the source canvas that drawImage scales to  *)
(* the output canvas (SmartDocumentScanner lines 542-570, DocumentScanner  *)
(* lines 1353-1383).  A number is a fraction <<n, d>> in lowest terms.     *)
(***************************************************************************)
MaxCropSide == 8
CropStep == 80

\* DocumentScanner's aspectRatio = 0.707 (line 1358)
AppAspectNum == 707
AppAspectDen == 1000

\* margin = 0.1
MarginNum == 1
MarginDen == 10

Frac(n, d) == LET g == Gcd(Abs(n), d) IN <<n \div g, d \div g>>

FracMul(a, b) == Frac(a[1] * b[1], a[2] * b[2])

FracDiv(a, b) == Frac(a[1] * b[2], a[2] * b[1])

FracSub(a, b) ==
    LET g == Gcd(a[2], b[2])
    IN  Frac(a[1] * (b[2] \div g) - b[1] * (a[2] \div g), (a[2] \div g) * b[2])

FracAdd(a, b) ==
    LET g == Gcd(a[2], b[2])
    IN  Frac(a[1] * (b[2] \div g) + b[1] * (a[2] \div g), (a[2] \div g) * b[2])

FracLeq(a, b) ==
    LET g == Gcd(a[2], b[2])
    IN  a[1] * (b[2] \div g) <= b[1] * (a[2] \div g)

FracMin(a, b) == IF FracLeq(a, b) THEN a ELSE b

\* startX, startY, finalWidth, cropHeight (lines 547-553, 1361-1367)
CropRect(width, height, aspectRatio) ==
    LET kept == Frac(MarginDen - 2 * MarginNum, MarginDen)
        cropWidth == FracMul(<<width, 1>>, kept)
        cropHeight == FracMin(FracDiv(cropWidth, aspectRatio),
                              FracMul(<<height, 1>>, kept))
        finalWidth == FracMul(cropHeight, aspectRatio)
    IN  [x |-> FracDiv(FracSub(<<width, 1>>, finalWidth), <<2, 1>>),
         y |-> FracDiv(FracSub(<<height, 1>>, cropHeight), <<2, 1>>),
         w |-> finalWidth,
         h |-> cropHeight]

\* aspectRatio of the class (lines 544, 1358)
CropAspect(class) ==
    IF class = "SmartDocumentScanner" THEN Frac(AspectWidth, AspectHeight)
    ELSE Frac(AppAspectNum, AppAspectDen)

CropSides == {CropStep * k : k \in 1..MaxCropSide} \cup {AspectWidth, AspectHeight}

CropInit ==
    /\ DetectIdle /\ ScannerStart /\ RectifyStart /\ AppStart
    /\ SortIdle /\ PixelIdle /\ RawIdle /\ ToneIdle /\ HullIdle
    /\ crPc = "given"
    /\ crClass \in {"SmartDocumentScanner", "DocumentScanner"}
    /\ crSource \in [w : CropSides, h : CropSides]
    /\ crop = NoCrop

ComputeCrop ==
    /\ crPc = "given"
    /\ crop' = CropRect(crSource.w, crSource.h, CropAspect(crClass))
    /\ crPc' = "cropped"
    /\ UNCHANGED <<crClass, crSource>>
    /\ UNCHANGED <<detectVars, scannerVars, rectifyVars, appVars, sortVars, pixelVars,
                   rawVars, toneVars, hullVars>>

CropNext == ComputeCrop

CropSpec == CropInit /\ [][CropNext]_vars

\* the crop is centred on the source
CropCentred ==
    /\ FracAdd(FracAdd(crop.x, crop.w), crop.x) = <<crSource.w, 1>>
    /\ FracAdd(FracAdd(crop.y, crop.h), crop.y) = <<crSource.h, 1>>

\* the crop has a positive size and lies inside the source
CropInside ==
    /\ crop.w[1] > 0 /\ crop.h[1] > 0
    /\ crop.x[1] >= 0 /\ crop.y[1] >= 0
    /\ FracLeq(FracAdd(crop.x, crop.w), <<crSource.w, 1>>)
    /\ FracLeq(FracAdd(crop.y, crop.h), <<crSource.h, 1>>)

\* a margin of at least a tenth of the source dimension on each side, and of
\* exactly a tenth on the sides that bound the crop
CropMargins ==
    LET tenthW == Frac(crSource.w * MarginNum, MarginDen)
        tenthH == Frac(crSource.h * MarginNum, MarginDen)
    IN  /\ FracLeq(tenthW, crop.x)
        /\ FracLeq(tenthH, crop.y)
        /\ crop.x = tenthW \/ crop.y = tenthH

\* C23: the fallback crop is a deterministic centre crop: for every source
\* width and height its rectangle is centred, has width / height = 210 / 297,
\* lies inside the source and leaves a margin of a tenth of the source
\* dimension on each side.
C23_FallbackCropCentred ==
    crPc = "cropped" =>
        /\ crop = CropRect(crSource.w, crSource.h, CropAspect(crClass))
        /\ CropCentred
        /\ FracDiv(crop.w, crop.h) = Frac(210, 297)
        /\ CropInside
        /\ CropMargins

(***************************************************************************)
(* Property of the captured pages (checked under AppSpec).                 *)
(***************************************************************************)
\* C24: individual pages can be deleted: the captured pages have pairwise
\* distinct ids at all times, and deleteImage called with the id of a
\* captured page removes exactly that page and leaves the others in their
\* order.
C24_DeleteRemovesOnePage ==
    /\ [](\A i, j \in 1..Len(appImages) : i # j => appImages[i].id # appImages[j].id)
    /\ [][\A id \in 0..MaxNow :
             AppDeleteImage(id) =>
                \E k \in 1..Len(appImages) :
                    /\ appImages[k].id = id
                    /\ appImages' = SubSeq(appImages, 1, k - 1)
                                        \o SubSeq(appImages, k + 1, Len(appImages))]_vars

(***************************************************************************)
(* The camera, its streams and the detection timer on their own: the       *)
(* handlers that write them (startCamera, switchCamera, stopCamera, the    *)
(* visibilitychange handler), with room for MaxCameraCalls startCamera     *)
(* calls awaiting at once.  The handlers left out (ticks, passes, capture, *)
(* delete, clear) read and write none of the camera's and the timer's      *)
(* variables but videoWidth, which they only read.                         *)
(***************************************************************************)
MaxCameraCalls == 2

CameraCalls == 1..MaxCameraCalls

CameraInit ==
    DetectIdle /\ ScannerStartWith(CameraCalls) /\ RectifyStart /\ AppStart /\ StagesIdle

CameraNext ==
    \/ ClickStart
    \/ ClickSwitch
    \/ \E c \in CameraCalls : GetUserMediaResolves(c)
    \/ \E c \in CameraCalls : GetUserMediaRejects(c)
    \/ LoadedMetadata
    \/ StopCamera
    \/ PageHidden
    \/ PageVisible

CameraSpec == CameraInit /\ [][CameraNext]_vars

(***************************************************************************)
(* convexHull and the quadrilateral fitter on their own: a set of distinct *)
(* points of a small grid, handed over in one of four orders.              *)
(***************************************************************************)
MaxHullCoord == 2
MaxHullPoints == 5

HullGrid == {Pt(x, y) : x \in 0..MaxHullCoord, y \in 0..MaxHullCoord}
HullOrders == {"rows", "rowsReversed", "columns", "columnsReversed"}

HullKey(order, p) ==
    CASE order = "rows" -> PY(p) * (MaxHullCoord + 1) + PX(p)
      [] order = "rowsReversed" -> 0 - (PY(p) * (MaxHullCoord + 1) + PX(p))
      [] order = "columns" -> PX(p) * (MaxHullCoord + 1) + PY(p)
      [] order = "columnsReversed" -> 0 - (PX(p) * (MaxHullCoord + 1) + PY(p))

\* the points of S as an array, in the given order
InOrder(S, order) ==
    [i \in 1..Cardinality(S) |->
        CHOOSE p \in S :
            Cardinality({q \in S : HullKey(order, q) < HullKey(order, p)}) = i - 1]

HullInit ==
    /\ DetectIdle /\ ScannerStart /\ RectifyStart /\ AppStart
    /\ SortIdle /\ PixelIdle /\ RawIdle /\ ToneIdle /\ CropIdle
    /\ hullPc = "given"
    /\ \E S \in SUBSET HullGrid, order \in HullOrders :
          /\ Cardinality(S) <= MaxHullPoints
          /\ hullIn = InOrder(S, order)
    /\ hullOut = <<>>
    /\ hullQuad = NoCorners

\* const hull = this.convexHull(contour)
HullScan ==
    /\ hullPc = "given"
    /\ hullOut' = ConvexHull(hullIn)
    /\ hullPc' = "hull"
    /\ UNCHANGED <<hullIn, hullQuad>>
    /\ UNCHANGED <<detectVars, scannerVars, rectifyVars, appVars, sortVars, pixelVars,
                   rawVars, toneVars, cropVars>>

\* findRectangleCorners(contour)
HullFit ==
    /\ hullPc = "hull"
    /\ hullQuad' = FindRectangleCorners(hullIn)
    /\ hullPc' = "fitted"
    /\ UNCHANGED <<hullIn, hullOut>>
    /\ UNCHANGED <<detectVars, scannerVars, rectifyVars, appVars, sortVars, pixelVars,
                   rawVars, toneVars, cropVars>>

HullNext == HullScan \/ HullFit

HullSpec == HullInit /\ [][HullNext]_vars

HullPoints(s) == {s[i] : i \in 1..Len(s)}

\* the point of S with the largest y, and the smallest x among those
Pivot(S) ==
    CHOOSE p \in S : \A q \in S : PY(q) < PY(p) \/ (PY(q) = PY(p) /\ PX(q) >= PX(p))

\* the vertex after the i-th, around the polygon
After(hull, i) == hull[(i % Len(hull)) + 1]

\* the vertices are in angular order about the first one
AngularOrder(hull) ==
    \A i, j \in 2..Len(hull) : i < j => CrossProduct(hull[1], hull[i], hull[j]) >= 0

\* consecutive vertices all turn the same way
TurnsOneWay(hull) ==
    Len(hull) >= 3 =>
        \A i \in 1..Len(hull) :
            CrossProduct(hull[i], After(hull, i), After(hull, (i % Len(hull)) + 1)) > 0

\* p lies inside or on the polygon
Encloses(hull, p) ==
    /\ \A i \in 1..Len(hull) : CrossProduct(hull[i], After(hull, i), p) >= 0
    /\ \E a, b \in HullPoints(hull) : PX(a) <= PX(p) /\ PX(p) <= PX(b)
    /\ \E a, b \in HullPoints(hull) : PY(a) <= PY(p) /\ PY(p) <= PY(b)

HullFromInput == HullPoints(hullOut) \subseteq HullPoints(hullIn)
HullAtPivot == hullOut[1] = Pivot(HullPoints(hullIn))
HullEnclosesInput == \A p \in HullPoints(hullIn) : Encloses(hullOut, p)

\* C25: for three or more distinct points in any order convexHull returns the
\* convex hull: its vertices are input points, start at the pivot, are in
\* angular order, turn one way, and every input point lies inside or on the
\* polygon; fewer than three points are returned unchanged.
C25_ConvexHullIsHull ==
    hullPc # "given" =>
        IF Len(hullIn) < 3 THEN hullOut = hullIn
        ELSE /\ HullFromInput
             /\ HullAtPivot
             /\ AngularOrder(hullOut)
             /\ TurnsOneWay(hullOut)
             /\ HullEnclosesInput

Least(Key(_), hull, p) == p \in HullPoints(hull) /\ \A q \in HullPoints(hull) : Key(p) <= Key(q)
Most(Key(_), hull, p) == p \in HullPoints(hull) /\ \A q \in HullPoints(hull) : Key(p) >= Key(q)
CoordSum(p) == PX(p) + PY(p)
CoordDiff(p) == PX(p) - PY(p)

\* C26: the fitter returns a hull of at most 4 points as it is and, for a
\* longer hull, the hull's vertices of least x+y, greatest x-y, greatest x+y
\* and least x-y in that order; a hull of fewer than 4 points gives no
\* candidate.
C26_FitterPicksExtremes ==
    hullPc = "fitted" =>
        /\ Len(hullOut) < 4 => hullQuad = NoCorners
        /\ Len(hullOut) = 4 => hullQuad = hullOut
        /\ Len(hullOut) > 4 =>
              /\ Len(hullQuad) = 4
              /\ Least(CoordSum, hullOut, hullQuad[1])
              /\ Most(CoordDiff, hullOut, hullQuad[2])
              /\ Most(CoordSum, hullOut, hullQuad[3])
              /\ Least(CoordDiff, hullOut, hullQuad[4])

C26_Witness ==
    /\ hullPc = "fitted"
    /\ Len(hullOut) > 4
    /\ Cardinality(HullPoints(hullQuad)) = 4

(***************************************************************************)
(* The detection gate: the scanner without the page list's own operations, *)
(* and with the scheduling of the browser: an interval timer that is       *)
(* active keeps firing, and a pass that has begun runs on to its end.      *)
(***************************************************************************)
GateNext ==
    \/ ClickStart
    \/ ClickSwitch
    \/ \E c \in Calls : GetUserMediaResolves(c)
    \/ \E c \in Calls : GetUserMediaRejects(c)
    \/ LoadedMetadata
    \/ \E t \in TimerIds : Tick(t)
    \/ DirectCall
    \/ \E i \in 1..MaxPasses : PassDetect(i)
    \/ \E i \in 1..MaxPasses : PassThrows(i)
    \/ \E i \in 1..MaxPasses : PassStore(i)
    \/ \E frame \in 1..Len(Scenes) : Capture(frame)
    \/ StopCamera
    \/ PageHidden
    \/ PageVisible

\* the next step of a pass in flight
PassRuns == \E i \in 1..MaxPasses : PassDetect(i) \/ PassThrows(i) \/ PassStore(i)

GateFairness ==
    /\ WF_vars(\E t \in TimerIds : Tick(t))
    /\ WF_vars(PassRuns)

GateSpec == Init /\ [][GateNext]_vars /\ GateFairness

PassEnds == \E i \in 1..MaxPasses : PassThrows(i) \/ PassStore(i)

TimerRunsOnReadyVideo == detectionInterval \in activeTimers /\ videoWidth # 0

\* C27: the gate never sticks closed: isDetecting is true only while a pass
\* is in flight, the end of a pass, normal or thrown, leaves it false, a tick
\* on a ready video with the gate open starts a pass, the gate opens again
\* after every pass (it is open again and again), and passes keep starting
\* unless the timer stops or the video loses its size (again and again the
\* timer is off, the video is not ready, or a pass is in flight).
C27_GateReopens ==
    /\ [](isDetecting => Len(passes) > 0)
    /\ [][PassEnds => ~isDetecting']_vars
    /\ [][((\E t \in TimerIds : Tick(t)) /\ ~isDetecting /\ videoWidth # 0)
             => (isDetecting' /\ Len(passes') = Len(passes) + 1)]_vars
    /\ []<>~isDetecting
    /\ []<>(~TimerRunsOnReadyVideo \/ isDetecting)

\* a pass has run to its end and stored a quadrilateral, and the gate is open
\* again under a running timer
C27_Witness ==
    /\ ~isDetecting
    /\ Len(passes) = 0
    /\ latestCompleted # NoCorners
    /\ TimerRunsOnReadyVideo

(***************************************************************************)
(* Properties of the camera (checked under CameraSpec and StopSpec).       *)
(***************************************************************************)
NoStartPending == \A c \in DOMAIN callPc : callPc[c] = "idle"

\* C28: at most one detection interval timer is active at any time, whatever
\* the interleaving of start, switch, stop, page-hidden and page-visible, and
\* after stopCamera with no start pending no timer is active.
C28_OneTimer ==
    /\ Cardinality(activeTimers) <= 1
    /\ (uiState = "camera-stopped" /\ NoStartPending) => activeTimers = {}

\* the camera was started, switched and stopped, and nothing is pending
C28_Witness ==
    /\ uiState = "camera-stopped"
    /\ NoStartPending
    /\ facingMode = OtherFacing("environment")
    /\ activeTimers = {}

\* the user who has stopped the camera presses neither start nor switch again
StopNext ==
    \/ (uiState = "initial" /\ ClickStart)
    \/ ClickSwitch
    \/ \E c \in CameraCalls : GetUserMediaResolves(c)
    \/ \E c \in CameraCalls : GetUserMediaRejects(c)
    \/ LoadedMetadata
    \/ StopCamera
    \/ PageHidden
    \/ PageVisible

StopSpec == CameraInit /\ [][StopNext]_vars

Stopped == uiState = "camera-stopped" /\ stream = 0 /\ activeTimers = {}

\* C29: stop is final until the next explicit start: stopCamera leaves the
\* stream null, no timer active and the UI in 'camera-stopped', and as long
\* as the user presses neither start nor switch that remains so, also when a
\* startCamera call was awaiting getUserMedia at the time of the stop.
C29_StopIsFinal ==
    /\ [][StopCamera => Stopped']_vars
    /\ [][Stopped => Stopped']_vars

\* C30: no camera stream is leaked: whenever no startCamera call is pending,
\* every stream handed out has had its tracks stopped, except at most the
\* one held in this.stream.
C30_NoStreamLeak ==
    NoStartPending => liveStreams \subseteq {stream}
====
